---- MODULE Spec2Model ----
(***************************************************************************)
(* A model of the Conduit RPC runtime: two RPCSession instances joined by  *)
(* a duplex channel, their reference registries, call correlation and the  *)
(* garbage collector that decides when proxies and local objects die.      *)
(***************************************************************************)
EXTENDS Integers, Sequences, FiniteSets, TLC

(***************************************************************************)
(* Bounds of the model.                                                    *)
(***************************************************************************)
\* Number of calls the two applications may start (runtime-internal
\* finalizeRef calls are not counted and are never blocked).
MaxCalls == 2
\* Number of stateLost emissions of the channel.
MaxLosses == 1
\* Number of stateLost emissions of the channel under the service proxy.
MaxStateLost == 2
\* Number of method calls and of subscriptions made through the service proxy.
MaxFacadeCalls == 2
MaxSubscriptions == 1
\* Underlying sockets a DurableSocket creates, messages the application
\* sends through it, and the largest maxAttempts the application sets.
MaxSockets == 3
MaxMessages == 2
MaxAttemptsSetting == 2
\* Requests the peer sends to the serving session.
MaxRequests == 2
\* getLocalService requests the peer makes.
MaxServiceCalls == 2
\* lock() invocations and call() invocations made from outside a lock.
MaxLocks == 2
MaxLockedCalls == 1
\* Calls the application of the lone session makes and frames its peer
\* sends to it.
MaxCallerCalls == 2
MaxCallerFrames == 3
\* subscribeToEvent requests of the peer, emissions of the local event and
\* stateLost emissions of the channel under the serving session.
MaxRemoteSubscriptions == 2
MaxEmissions == 2
MaxChannelLosses == 2

(***************************************************************************)
(* Peers, objects and values.                                              *)
(***************************************************************************)
Peers == {"A", "B"}
Other(p) == IF p = "A" THEN "B" ELSE "A"

\* @Name(`org.webrpc.session`): the well-known id of the session object.
SessionName == "org.webrpc.session"
\* The remotable objects the two applications own: o lives on A, k on B.
Owned(p) == IF p = "A" THEN {"o"} ELSE {"k"}
ObjIds == {"o", "k", SessionName}

\* Values an application can hold or pass: a plain value, a local remotable
\* object, or an RPCProxy carrying OBJECT_ID and REFERENCE_ID.
NoValue == [t |-> "none", id |-> "", rid |-> 0]
Obj(x) == [t |-> "obj", id |-> x, rid |-> 0]
RPCProxy(x, r) == [t |-> "proxy", id |-> x, rid |-> r]
\* session.remote: RPCProxy.create(this, 'org.webrpc.session', '').
Remote == RPCProxy(SessionName, 0)

\* A RemoteRef on the wire: { Rε, S, Rid }; NoRef is a plain JSON value.
NoRef == [id |-> "", S |-> "", Rid |-> 0]
NoRefID == <<"", 0>>
\* A Map entry that is absent.
NoEntry == -1
\* The null of DurableSocket._socket.
NoSocket == 0
\* The code of an event object that has no code property.
NoCode == 0

\* What getLocalService answers for a name that is not registered (null) and
\* what a WeakRef whose object was collected dereferences to (undefined).
NullObject == -1
UndefinedObject == 0
\* Names under which the registry of this model can hold a service: the
\* session's own, a declared name, and the text String(undefined).
ServiceNames == {SessionName, "a", "undefined"}
\* A registry slot without a service.
NoService == [registered |-> FALSE, factory |-> "", discoverable |-> FALSE,
              introspectable |-> FALSE]

\* JavaScript values a method returns or throws and a response carries.  An
\* Error has a name, a message and a stack, which is a stack trace or the
\* summary `name: message`; marked is the intentional-error symbol property,
\* code and reason are the properties of the errors the session makes up.
JSValue(k) == [k |-> k, name |-> "", message |-> "", stack |-> "",
               num |-> 0, marked |-> FALSE, code |-> "", reason |-> ""]
Undefined == JSValue("undefined")
Null == JSValue("null")
Number(n) == [JSValue("number") EXCEPT !.num = n]
ErrorObject(message, marked) ==
    [JSValue("Error") EXCEPT !.name = "Error", !.message = message,
                             !.stack = "trace", !.marked = marked]
\* new RPCInternalError(): its constructor sets the stack to the summary.
RPCInternalError ==
    [JSValue("Error") EXCEPT !.name = "RPCInternalError",
                             !.message = "An internal error has occurred",
                             !.stack = "summary"]
\* { code: 'invalid-call', reason, message }.
InvalidCall(reason, message) ==
    [JSValue("object") EXCEPT !.code = "invalid-call", !.reason = reason,
                              !.message = message]
\* if (v): the truthiness of a value.
Truthy(v) ==
    /\ v.k \notin {"undefined", "null"}
    /\ v.k = "number" => v.num # 0

\* The receiver of a request frame: no property at all, a RemoteRef, or a
\* plain JSON value that is not a reference.
Receiver(kind, ref) == [kind |-> kind, ref |-> ref]
\* A request the serving session has not received.
NotReceived ==
    [st |-> "none", receiver |-> Receiver("absent", NoRef), method |-> "",
     invoked |-> FALSE, threw |-> FALSE, outcome |-> Undefined]

VARIABLES
    session,      \* per peer: the fields of its RPCSession and its promises
    chan,         \* per peer: frames sent to it and not yet received
    executing,    \* per peer: requests whose method is still running
    fatal,        \* per peer: emitFatalError was called
    appCalls,     \* calls started by the applications so far
    losses,       \* stateLost emissions so far
    collected,    \* per peer: proxies the garbage collector has reclaimed
    lost,         \* per peer: ids of the requests in flight at a stateLost
    decodedR,     \* per peer: what each received S="R" descriptor decoded to
    passed        \* per peer: <<request id, value>> of each object or proxy
                  \* passed as a parameter of a call

svars == <<session, chan, executing, fatal, appCalls,
           losses, collected, lost, decodedR, passed>>

\* The service proxy returned by createServiceProxy and the channel under it.
VARIABLES
    channelReady,     \* the channel's ready subject holds a replayable value
    stateLosses,      \* stateLost emissions of the channel so far
    outage,           \* stateLost emissions since the channel was last up
    sessionResolved,  \* sessionPromise has resolved
    ready,            \* the flag kept by the session initialization
    sessionReady,     \* which sessionReady promise the variable holds
    sessionReadyDone, \* the sessionReady promises that have resolved
    servicePromise,   \* which acquisition the variable holds, or NoEntry
    acquire,          \* per acquisition: where acquireService stands
    methodTable,      \* per property: the service promise its method captured
    eventObservers,   \* the EventSubscription records, in order
    ledger,           \* per record: when it was made, times re-subscribed
    pendingCalls,     \* facade calls awaiting their service promise
    forwarded,        \* facade calls that reached a service handle
    rejectedCalls,    \* facade calls rejected by their service promise
    unsubscribes,     \* per observer: where its unsubscribe() stands
    readyEmitted      \* the channel's ready observable has emitted

fvars == <<channelReady, stateLosses, outage, sessionResolved, ready,
           sessionReady, sessionReadyDone, servicePromise, acquire,
           methodTable, eventObservers, ledger, pendingCalls, forwarded,
           rejectedCalls, unsubscribes, readyEmitted>>

\* A DurableSocket, the sockets it creates and the channel over it.
VARIABLES
    durable,          \* the fields of the DurableSocket and its ready promises
    sockets,          \* per underlying socket created: its readyState
    wire,             \* the messages handed to an underlying socket, in order
    socketChannel,    \* the DurableSocketChannel made by asChannel()
    observed          \* what an observer of the socket has seen so far

dvars == <<durable, sockets, wire, socketChannel, observed>>

\* A session that serves the requests of a peer, and that peer.
VARIABLES
    server,           \* the options of the serving session and its channel
    inbound,          \* per request id: how far its dispatch has come
    responses,        \* the response frames the serving session has sent
    client            \* the calling session: requestMap and promises

qvars == <<server, inbound, responses, client>>

VARIABLES
    host,       \* the service registry and object registries of a session
    lastOp      \* the last registry operation and what it answered
rvars == <<host, lastOp>>

VARIABLES
    waitChain,   \* the promise this.waitChain names, by its number
    chain,       \* the promises waitChain has named, each with its waiters
    locks,       \* the lock() invocations
    lockedCalls, \* the call() invocations issued outside any lock callback
    microtasks   \* continuations queued to run, oldest first
lvars == <<waitChain, chain, locks, lockedCalls, microtasks>>

\* One session whose peer may send it any frame.
VARIABLES
    caller,      \* the fields of the session and its promises
    callerLog,   \* what its calls and the frames it received have done
    finalization \* the timers the proxyFinalizer callback has set
cvars == <<caller, callerLog, finalization>>

\* A session serving subscribeToEvent requests for one local event.
VARIABLES
    eventChannel,   \* the channel of the session: "none" until it is made
    remoteSubs,     \* per subscribeToEvent request: its subscription
    emissions,      \* values the local event has emitted so far
    channelLosses   \* stateLost emissions of the channel so far
evars == <<eventChannel, remoteSubs, emissions, channelLosses>>

\* The service proxy on any channel, and the events of the remote service.
VARIABLES
    sessionReadyRejected,  \* the member of the channel whose absence made
                           \* the session initialization throw, or ""
    delivery               \* emissions of the remote event and whom they reached
pvars == <<sessionReadyRejected, delivery>>

vars == <<svars, fvars, dvars, qvars, rvars, lvars, cvars, evars, pvars>>

\* What the actions of one part leave alone.
exceptSession == <<fvars, dvars, qvars, rvars, lvars, cvars, evars, pvars>>
exceptFacade == <<svars, dvars, qvars, rvars, lvars, cvars, evars, pvars>>
exceptSocket == <<svars, fvars, qvars, rvars, lvars, cvars, evars, pvars>>
exceptDispatch == <<svars, fvars, dvars, rvars, lvars, cvars, evars, pvars>>
exceptServices == <<svars, fvars, dvars, qvars, lvars, cvars, evars, pvars>>
exceptLocks == <<svars, fvars, dvars, qvars, rvars, cvars, evars, pvars>>
exceptCaller == <<svars, fvars, dvars, qvars, rvars, lvars, evars, pvars>>
exceptEvents == <<svars, fvars, dvars, qvars, rvars, lvars, cvars, pvars>>
exceptFacadeChannels == <<svars, dvars, qvars, rvars, lvars, cvars, evars>>

(***************************************************************************)
(* RPCSession: registries.                                                 *)
(***************************************************************************)
isRemotable(v) == v.t \in {"obj", "proxy"}

isRemoteRef(ref) == ref.id # ""

registerProxy(s, v) ==
    [s EXCEPT !.proxyRegistry = [@ EXCEPT ![v.id] = v.rid],
              !.proxyFinalizer = @ \cup {<<v.id, v.rid>>}]

registerLocalObject(s, id) ==
    [s EXCEPT !.localObjectRegistry = @ \cup {id}]

remoteRef(s, v) ==
    IF v.t = "proxy"
    THEN [s   |-> IF s.proxyRegistry[v.id] = NoEntry
                  THEN registerProxy(s, v) ELSE s,
          ref |-> [id |-> v.id, S |-> "R", Rid |-> 0]]
    ELSE LET s1 == IF v.id \notin s.localObjectRegistry
                   THEN registerLocalObject(s, v.id) ELSE s
             referenceId == s1.uuid
         IN [s   |-> [s1 EXCEPT !.remoteRefRegistry =
                                     @ \cup {<<v.id, referenceId>>},
                                !.uuid = @ + 1],
             ref |-> [id |-> v.id, S |-> "L", Rid |-> referenceId]]

\* JSON.stringify with the replacer: the receiver is visited before the
\* parameters (for a response the value travels in param).
encodeValue(s, v) ==
    IF isRemotable(v) THEN remoteRef(s, v) ELSE [s |-> s, ref |-> NoRef]

encodeMessage(s, message) ==
    LET r == encodeValue(s, message.receiver)
        q == encodeValue(r.s, message.param)
    IN [s     |-> q.s,
        frame |-> [message EXCEPT !.receiver = r.ref, !.param = q.ref]]

rawSend(s, message) == encodeMessage(s, message)

\* A call() whose in-flight entry does not keep the parameters.
callWithoutParams(s, receiver, method, param, refID) ==
    LET rpcRequest == [type |-> "request", id |-> s.requestId,
                       receiver |-> receiver, method |-> method,
                       param |-> param, refID |-> refID, error |-> FALSE]
        s1 == [s EXCEPT !.requestId = @ + 1,
                        !.requestMap = @ \cup
                            {[request |-> [rpcRequest EXCEPT !.param = NoValue],
                              error |-> FALSE]},
                        !.promises = Append(@, "pending")]
        e == rawSend(s1, rpcRequest)
    IN [s |-> e.s, out |-> <<e.frame>>]

\* call(): the in-flight entry keeps the request as it was before encoding.
call(s, receiver, method, param, refID) ==
    LET rpcRequest == [type |-> "request", id |-> s.requestId,
                       receiver |-> receiver, method |-> method,
                       param |-> param, refID |-> refID, error |-> FALSE]
        s1 == [s EXCEPT !.requestId = @ + 1,
                        !.requestMap = @ \cup {[request |-> rpcRequest,
                                                error |-> FALSE]},
                        !.promises = Append(@, "pending")]
        e == rawSend(s1, rpcRequest)
    IN [s |-> e.s, out |-> <<e.frame>>]

\* WeakRef.deref() of the proxy registered for an object id.
derefProxy(s, id) ==
    LET r == s.proxyRegistry[id]
    IN IF r # NoEntry /\ <<id, r>> \in s.liveProxies
       THEN RPCProxy(id, r) ELSE NoValue

getLocalObjectById(s, id) ==
    IF id \in s.localObjectRegistry /\ id \notin s.deadObjects
    THEN Obj(id) ELSE NoValue

\* A getObjectByRemoteRef() that keeps the extra reference of a duplicate
\* descriptor instead of handing it back.
getObjectByRemoteRefKeepingExtra(s, ref) ==
    IF ref.id = ""
    THEN [s |-> s, object |-> NoValue, failed |-> FALSE, out |-> <<>>]
    ELSE IF ref.S = "L"
    THEN LET object == derefProxy(s, ref.id)
         IN IF object # NoValue
            THEN [s |-> s, object |-> object, failed |-> FALSE, out |-> <<>>]
            ELSE [s |-> [s EXCEPT
                           !.proxyRegistry = [@ EXCEPT ![ref.id] = ref.Rid],
                           !.liveProxies = @ \cup {<<ref.id, ref.Rid>>}],
                  object |-> RPCProxy(ref.id, ref.Rid), failed |-> FALSE,
                  out |-> <<>>]
    ELSE IF ref.S = "R"
    THEN LET object == getLocalObjectById(s, ref.id)
         IN [s |-> s, object |-> object, failed |-> object = NoValue,
             out |-> <<>>]
    ELSE [s |-> s, object |-> NoValue, failed |-> TRUE, out |-> <<>>]

\* A getObjectByRemoteRef() that takes every descriptor for a remote object,
\* whatever its side.
getObjectByRemoteRefIgnoringSide(s, ref) ==
    IF ref.id = ""
    THEN [s |-> s, object |-> NoValue, failed |-> FALSE, out |-> <<>>]
    ELSE LET object == derefProxy(s, ref.id)
         IN IF object # NoValue
            THEN [s |-> s, object |-> object, failed |-> FALSE, out |-> <<>>]
            ELSE [s |-> [s EXCEPT
                           !.proxyRegistry = [@ EXCEPT ![ref.id] = ref.Rid],
                           !.liveProxies = @ \cup {<<ref.id, ref.Rid>>}],
                  object |-> RPCProxy(ref.id, ref.Rid), failed |-> FALSE,
                  out |-> <<>>]

getObjectByRemoteRef(s, ref) ==
    IF ref.id = ""
    THEN [s |-> s, object |-> NoValue, failed |-> FALSE, out |-> <<>>]
    ELSE IF ref.S = "L"
    THEN LET object == derefProxy(s, ref.id)
         IN IF object # NoValue
            THEN LET c == call(s, Remote, "finalizeRef", NoValue,
                               <<ref.id, ref.Rid>>)
                 IN [s |-> c.s, object |-> object, failed |-> FALSE,
                     out |-> c.out]
            ELSE [s |-> [s EXCEPT
                           !.proxyRegistry = [@ EXCEPT ![ref.id] = ref.Rid],
                           !.liveProxies = @ \cup {<<ref.id, ref.Rid>>}],
                  object |-> RPCProxy(ref.id, ref.Rid), failed |-> FALSE,
                  out |-> <<>>]
    ELSE IF ref.S = "R"
    THEN LET object == getLocalObjectById(s, ref.id)
         IN [s |-> s, object |-> object, failed |-> object = NoValue,
             out |-> <<>>]
    ELSE [s |-> s, object |-> NoValue, failed |-> TRUE, out |-> <<>>]

\* JSON.parse with the reviver.
decodeMessage(s, frame) ==
    LET r == getObjectByRemoteRef(s, frame.receiver)
        q == IF r.failed THEN [r EXCEPT !.out = <<>>]
             ELSE getObjectByRemoteRef(r.s, frame.param)
    IN [s       |-> q.s,
        failed  |-> r.failed \/ q.failed,
        out     |-> r.out \o q.out,
        message |-> [frame EXCEPT !.receiver = r.object, !.param = q.object]]

\* A finalizeRef() that releases every reference to the object.
finalizeRefOfObject(s, refID) ==
    [s EXCEPT !.remoteRefRegistry = {e \in @ : e[1] # refID[1]}]

finalizeRef(s, refID) ==
    [s EXCEPT !.remoteRefRegistry = @ \ {refID}]

countReferencesForObject(s, id) ==
    Cardinality({e \in s.remoteRefRegistry : e[1] = id})

(***************************************************************************)
(* The service registry.  A class is what its decorators left on it: the   *)
(* rpc:type tag, the rpc:name metadata if @Name() was applied, and the     *)
(* rpc:discoverable and rpc:introspectable metadata ("unset" without the   *)
(* decorator).  A service object is known by the number of the factory     *)
(* call that made it.                                                      *)
(***************************************************************************)
Klasses ==
    {klass \in [remotable : BOOLEAN, named : BOOLEAN, name : {"a", ""},
                discoverable : {"unset", "true", "false"},
                introspectable : {"unset", "true", "false"}] :
        klass.named \/ klass.name = ""}

\* String(Reflect.getMetadata('rpc:name', target)).
getRpcServiceName(klass) == IF klass.named THEN klass.name ELSE "undefined"
\* Boolean(Reflect.getMetadata('rpc:discoverable', target) ?? true).
getRpcDiscoverable(klass) == klass.discoverable # "false"
getRpcIntrospectable(klass) == klass.introspectable # "false"

\* The constructor: registerService(RPCSession, () => this) and
\* registerLocalObject(this, 'org.webrpc.session').
NewHost ==
    [enableDiscovery |-> TRUE, enableIntrospection |-> TRUE,
     serviceRegistry |->
        [n \in ServiceNames |->
            IF n = SessionName
            THEN [registered |-> TRUE, factory |-> "this",
                  discoverable |-> TRUE, introspectable |-> TRUE]
            ELSE NoService],
     localObjectRegistry |->
        [n \in ServiceNames |->
            [has |-> n = SessionName,
             deref |-> IF n = SessionName THEN 1 ELSE UndefinedObject]],
     remoteRefRegistry |-> [n \in ServiceNames |-> 0],
     factoryCalls |-> [n \in ServiceNames |-> 0],
     requests |-> 0,
     answers |-> [n \in ServiceNames |-> {}]]

NoOp == [op |-> "", name |-> "", threw |-> FALSE, remotable |-> FALSE,
         named |-> FALSE, duplicate |-> FALSE, changed |-> FALSE,
         listed |-> {}]

(***************************************************************************)
(* lock() and the wait of call().  Promises are numbered: promise 0 is the *)
(* Promise.resolve() waitChain starts with and promise i is the one the    *)
(* i-th lock() invocation stores in waitChain.  No Zone is loaded, so      *)
(* lock() runs its callback through ignoreLocks().                         *)
(***************************************************************************)
NoPromise == [state |-> "unused", prev |-> 0, waiters |-> <<>>]
NoLock == [st |-> "none", sync |-> FALSE, inner |-> FALSE,
           returnValue |-> "none", innerSent |-> FALSE, unfinished |-> {}]
NoLockedCall == [st |-> "none", after |-> {}, during |-> {}]

IsSettled(state) == state \in {"fulfilled", "rejected"}

\* A subscribeToEvent request the session has not received.  closed is
\* Subscription.closed of the subscription to the local observable,
\* listening says that its stateLost subscriber is in place.
NoRemoteSubscription ==
    [st |-> "none", closed |-> FALSE, listening |-> FALSE,
     received |-> 0,          \* eventReceiver.next() calls made
     lostSince |-> FALSE,     \* stateLost was emitted since it was made
     emittedSince |-> FALSE,  \* ... and the event has emitted after that
     invokedSince |-> FALSE]  \* ... and that emission reached the receiver

\* The history of the lone session: calls made and frames received so far,
\* and what has been seen happen.
NoCallerLog ==
    [calls |-> 0, frames |-> 0,
     becameIdle |-> FALSE,      \* _becameIdle.next() was called
     emittedBusy |-> FALSE,     \* ... while the session was not idle
     missed |-> FALSE,          \* a response or finalizeRef left the session
                                \* idle and nothing was emitted
     settledOther |-> FALSE,    \* a response settled a call of another id
     resettled |-> FALSE,       \* a settled promise changed
     strayUnknown |-> FALSE,    \* a response with an id never issued came
     strayCompleted |-> FALSE,  \* a response to a completed call came
     strayTouched |-> FALSE,    \* a stray response changed the session
     strayDispatched |-> FALSE, \* ... in its dispatch, after decoding
     sendFailed |-> FALSE]      \* rawSend threw inside call()

(***************************************************************************)
(* Initial state: two sessions just constructed on a fresh channel.  The   *)
(* constructor registers the session object under its well-known name and  *)
(* creates the remote proxy without registering it.                        *)
(***************************************************************************)
NewSession ==
    [localObjectRegistry |-> {SessionName},
     remoteRefRegistry   |-> {},
     proxyRegistry       |-> [i \in ObjIds |-> NoEntry],
     proxyFinalizer      |-> {},
     requestMap          |-> {},
     uuid                |-> 1,
     requestId           |-> 1,
     promises            |-> <<>>,
     liveProxies         |-> {<<SessionName, 0>>},
     deadObjects         |-> {}]

(***************************************************************************)
(* createServiceProxy: the acquisitions of the service handle.  Acquisition *)
(* 0 is the one serviceProvider starts lazily; acquisition n is the one the *)
(* stateLost subscriber chains on the n-th sessionReady promise.            *)
(***************************************************************************)
Acquisitions == 0..MaxStateLost
Methods == {"doStuff"}
Properties == Methods \cup {"event"}

\* The observer a remote subscribe gets when it is called without one.
NoObserver == 0

NotStarted == [st |-> "none", idx |-> 0, cur |-> 0]
\* acquireService is awaiting sessionReady.
AwaitingSession == [st |-> "sessionReady", idx |-> 0, cur |-> 0]
\* acquireService has called getRemoteService and awaits the answer.
GettingService == [st |-> "getRemoteService", idx |-> 0, cur |-> 0]
\* The remote operations in flight when the channel loses its state are
\* never answered: the acquisitions awaiting them stay where they are.
Orphaned(a) ==
    IF a.st \in {"getRemoteService", "resubscribe"}
    THEN [a EXCEPT !.st = "orphaned"] ELSE a

Init ==
    /\ session = [p \in Peers |-> NewSession]
    /\ chan = [p \in Peers |-> <<>>]
    /\ executing = [p \in Peers |-> {}]
    /\ fatal = [p \in Peers |-> FALSE]
    /\ appCalls = 0
    /\ losses = 0
    /\ collected = [p \in Peers |-> {}]
    /\ lost = [p \in Peers |-> {}]
    /\ decodedR = [p \in Peers |-> {}]
    /\ passed = [p \in Peers |-> {}]
    /\ channelReady = FALSE
    /\ stateLosses = 0
    /\ outage = 0
    /\ sessionResolved = FALSE
    /\ ready = TRUE
    /\ sessionReady = 0
    /\ sessionReadyDone = {}
    /\ servicePromise = NoEntry
    /\ acquire = [g \in Acquisitions |-> NotStarted]
    /\ methodTable = [m \in Properties |-> NoEntry]
    /\ eventObservers = <<>>
    /\ ledger = <<>>
    /\ pendingCalls = {}
    /\ forwarded = {}
    /\ rejectedCalls = {}
    /\ unsubscribes = [n \in 1..MaxSubscriptions |-> "none"]
    /\ readyEmitted = FALSE
    /\ durable = [connecting |-> TRUE, socket |-> NoSocket, created |-> 1,
                  open |-> FALSE, ready |-> FALSE, attempt |-> 0,
                  closed |-> FALSE, messageQueue |-> <<>>,
                  reconnectTimeout |-> FALSE, pingTimer |-> FALSE,
                  maxAttempts |-> 0, readyInitial |-> "pending",
                  replaced |-> FALSE, readyCurrent |-> "pending"]
    /\ sockets = [k \in 1..MaxSockets |->
                     IF k = 1 THEN "connecting" ELSE "none"]
    /\ wire = <<>>
    /\ socketChannel = [readyBuffer |-> FALSE]
    /\ observed = [submitted |-> 0, enqueued |-> {}, closeCalled |-> FALSE,
                   afterClose |-> {}, failed |-> 0, fatal |-> FALSE,
                   failedAtFatal |-> 0, everReady |-> FALSE,
                   lostSinceReady |-> 0, lostBeforeReady |-> 0,
                   staleSeen |-> FALSE, staleWhileCurrent |-> FALSE,
                   staleChanged |-> FALSE]
    /\ server = [safeExceptionsMode |-> TRUE, maskStackTraces |-> TRUE,
                 allowAll |-> FALSE, closed |-> FALSE, fatal |-> FALSE]
    /\ inbound = [i \in 1..MaxRequests |-> NotReceived]
    /\ responses = <<>>
    /\ client = [requestMap |-> {},
                 promises |-> [i \in 1..MaxRequests |-> "none"],
                 delivered |-> 0,
                 got |-> [i \in 1..MaxRequests |-> Undefined]]
    /\ host = NewHost
    /\ lastOp = NoOp
    /\ waitChain = 0
    /\ chain = [k \in 0..MaxLocks |->
                  IF k = 0 THEN [NoPromise EXCEPT !.state = "fulfilled"]
                  ELSE NoPromise]
    /\ locks = [i \in 1..MaxLocks |-> NoLock]
    /\ lockedCalls = [c \in 1..MaxLockedCalls |-> NoLockedCall]
    /\ microtasks = <<>>
    /\ caller = NewSession
    /\ callerLog = NoCallerLog
    /\ finalization = [timers |-> {}, sent |-> {}, sentRevived |-> FALSE]
    /\ eventChannel = "none"
    /\ remoteSubs = [i \in 1..MaxRemoteSubscriptions |-> NoRemoteSubscription]
    /\ emissions = 0
    /\ channelLosses = 0
    /\ sessionReadyRejected = ""
    /\ delivery = [emissions |-> 0, delivered |-> {}, missed |-> {}]

(***************************************************************************)
(* What the application on p can name, and what the collector may not      *)
(* reclaim.  An application is taken to hold every object and proxy it     *)
(* was given until the step in which it drops its last reference and the   *)
(* collector reclaims the value, so dropping and collecting are one step.  *)
(***************************************************************************)
HeldProxies(p) ==
    {RPCProxy(x[1], x[2]) : x \in session[p].liveProxies} \ {Remote}
HeldObjects(p) == {Obj(x) : x \in Owned(p) \ session[p].deadObjects}

\* Besides the application, a proxy is strongly reachable from the session
\* (its remote proxy), from an in-flight request (InFlightRequest.request)
\* and from a running method's arguments.
ProxyReachable(p, x) ==
    \/ x[1] = SessionName
    \/ \E e \in session[p].requestMap :
          RPCProxy(x[1], x[2]) \in {e.request.receiver, e.request.param}
    \/ \E e \in executing[p] : e.param = RPCProxy(x[1], x[2])

\* Besides the application, a local object is strongly reachable from the
\* remoteRefRegistry, from an in-flight request and from a running method.
ObjectReachable(p, id) ==
    \/ id = SessionName
    \/ \E e \in session[p].remoteRefRegistry : e[1] = id
    \/ \E e \in session[p].requestMap : e.request.param = Obj(id)
    \/ \E e \in executing[p] : Obj(id) \in {e.receiver, e.param}

(***************************************************************************)
(* Actions.                                                                *)
(***************************************************************************)
\* The application on p calls a method through a proxy it holds.  Calls are
\* started by the client B; A starts only the calls the runtime makes.
AppCall(p, receiver, param) ==
    /\ appCalls < MaxCalls
    /\ p = "B"
    /\ receiver \in {Remote} \cup HeldProxies(p)
    /\ param \in {NoValue} \cup HeldObjects(p) \cup HeldProxies(p)
    /\ LET c == call(session[p], receiver, "call", param, NoRefID)
       IN /\ session' = [session EXCEPT ![p] = c.s]
          /\ chan' = [chan EXCEPT ![Other(p)] = @ \o c.out]
    /\ appCalls' = appCalls + 1
    /\ passed' = [passed EXCEPT ![p] =
           IF isRemotable(param)
           THEN @ \cup {<<session[p].requestId, param>>} ELSE @]
    /\ UNCHANGED <<executing, fatal, losses, collected, lost, decodedR>>
    /\ UNCHANGED exceptSession

\* onReceiveMessage for a request.
onRequest(p, s, message, out) ==
    IF message.receiver = NoValue
    THEN LET r == rawSend(s, [type |-> "response", id |-> message.id,
                              receiver |-> NoValue, method |-> "",
                              param |-> NoValue, refID |-> NoRefID,
                              error |-> TRUE])
         IN /\ session' = [session EXCEPT ![p] = r.s]
            /\ chan' = [chan EXCEPT ![p] = Tail(@),
                                    ![Other(p)] = @ \o out \o <<r.frame>>]
            /\ UNCHANGED executing
    ELSE IF message.method = "finalizeRef"
    THEN LET r == rawSend(finalizeRef(s, message.refID),
                          [type |-> "response", id |-> message.id,
                           receiver |-> NoValue, method |-> "",
                           param |-> NoValue, refID |-> NoRefID,
                           error |-> FALSE])
         IN /\ session' = [session EXCEPT ![p] = r.s]
            /\ chan' = [chan EXCEPT ![p] = Tail(@),
                                    ![Other(p)] = @ \o out \o <<r.frame>>]
            /\ UNCHANGED executing
    ELSE /\ session' = [session EXCEPT ![p] = s]
         /\ chan' = [chan EXCEPT ![p] = Tail(@), ![Other(p)] = @ \o out]
         /\ executing' = [executing EXCEPT ![p] = @ \cup
                {[id |-> message.id, receiver |-> message.receiver,
                  param |-> message.param]}]

\* The responseHandler installed by call().
responseHandler(s, response) ==
    [s EXCEPT !.promises[response.id] =
                  IF @ # "pending" THEN @
                  ELSE IF response.error THEN "rejected" ELSE "resolved"]

\* onReceiveMessage for a response.
onResponse(p, s, message, out) ==
    LET inFlight == {e \in s.requestMap : e.request.id = message.id}
    IN /\ session' = [session EXCEPT ![p] =
              IF inFlight = {} THEN s
              ELSE responseHandler([s EXCEPT !.requestMap = @ \ inFlight],
                                   message)]
       /\ chan' = [chan EXCEPT ![p] = Tail(@), ![Other(p)] = @ \o out]
       /\ UNCHANGED executing

\* channel.received: decode the frame, then dispatch it.
Received(p) ==
    /\ chan[p] # <<>>
    /\ LET data == Head(chan[p])
           d == decodeMessage(session[p], data)
           refs == {r \in {data.receiver, data.param} : r.S = "R"}
       IN /\ decodedR' = [decodedR EXCEPT ![p] = @ \cup
                 {<<r.id, getObjectByRemoteRef(session[p], r).object>> :
                     r \in refs}]
          /\ IF d.failed
             THEN /\ fatal' = [fatal EXCEPT ![p] = TRUE]
                  /\ chan' = [chan EXCEPT ![p] = Tail(@)]
                  /\ UNCHANGED <<session, executing>>
             ELSE /\ UNCHANGED fatal
                  /\ IF data.type = "request"
                     THEN onRequest(p, d.s, d.message, d.out)
                     ELSE onResponse(p, d.s, d.message, d.out)
    /\ UNCHANGED <<appCalls, losses, collected, lost, passed>>
    /\ UNCHANGED exceptSession

\* A running method returns value.
Respond(p, e, value) ==
    /\ e \in executing[p]
    /\ value \in {NoValue} \cup HeldObjects(p) \cup HeldProxies(p)
    /\ LET r == rawSend(session[p],
                        [type |-> "response", id |-> e.id,
                         receiver |-> NoValue, method |-> "",
                         param |-> value, refID |-> NoRefID, error |-> FALSE])
       IN /\ session' = [session EXCEPT ![p] = r.s]
          /\ chan' = [chan EXCEPT ![Other(p)] = Append(@, r.frame)]
    /\ executing' = [executing EXCEPT ![p] = @ \ {e}]
    /\ UNCHANGED <<fatal, appCalls, losses, collected, lost, decodedR,
                   passed>>
    /\ UNCHANGED exceptSession

\* The application drops its last reference to a proxy and the collector
\* reclaims it: its WeakRef now derefs to undefined.  The FinalizationRegistry
\* calls back only for proxies that registerProxy registered, which
\* getObjectByRemoteRef never does for the proxies it creates.
CollectProxy(p, x) ==
    /\ x \in session[p].liveProxies
    /\ ~ProxyReachable(p, x)
    /\ x \notin session[p].proxyFinalizer
    /\ session' = [session EXCEPT ![p].liveProxies = @ \ {x}]
    /\ collected' = [collected EXCEPT ![p] = @ \cup {x}]
    /\ UNCHANGED <<chan, executing, fatal, appCalls, losses, lost, decodedR,
                   passed>>
    /\ UNCHANGED exceptSession

\* The application drops its last reference to one of its objects and the
\* collector reclaims it.
CollectObject(p, id) ==
    /\ id \in Owned(p)
    /\ id \notin session[p].deadObjects
    /\ ~ObjectReachable(p, id)
    /\ session' = [session EXCEPT ![p].deadObjects = @ \cup {id}]
    /\ UNCHANGED <<chan, executing, fatal, appCalls, losses, collected, lost,
                   decodedR, passed>>
    /\ UNCHANGED exceptSession

\* channel.stateLost: the constructor's subscriber marks every in-flight
\* request with an error.  A channel that loses its state may also lose the
\* frames in transit (drop).
StateLost(p, drop) ==
    /\ losses < MaxLosses
    /\ losses' = losses + 1
    /\ session' = [session EXCEPT ![p].requestMap =
                      {[e EXCEPT !.error = TRUE] : e \in @}]
    /\ lost' = [lost EXCEPT ![p] = @ \cup
                   {e.request.id : e \in session[p].requestMap}]
    /\ chan' = IF drop THEN [q \in Peers |-> <<>>] ELSE chan
    /\ UNCHANGED <<executing, fatal, appCalls, collected, decodedR, passed>>
    /\ UNCHANGED exceptSession

\* finalizeProxy(): the session is told that the peer has finalized one of
\* the references it was given, whatever the peer's proxy is doing.
finalizeProxy(p, refID) ==
    /\ refID \in session[p].remoteRefRegistry
    /\ session' = [session EXCEPT ![p] = finalizeRef(@, refID)]
    /\ UNCHANGED <<chan, executing, fatal, appCalls, losses, collected, lost,
                   decodedR, passed>>
    /\ UNCHANGED exceptSession

(***************************************************************************)
(* createServiceProxy: actions.  A remote operation (getRemoteService, a   *)
(* subscribe, an unsubscribe) is answered only while the connection it was *)
(* issued on is up.                                                        *)
(***************************************************************************)
\* A session initialization that does not await the channel's first ready.
ResolveSessionWithoutReady ==
    /\ ~sessionResolved
    /\ sessionResolved' = TRUE
    /\ ready' = TRUE
    /\ sessionReadyDone' = sessionReadyDone \cup {0}
    /\ acquire' = [g \in Acquisitions |->
          IF g = 0 /\ acquire[g].st = "sessionReady"
          THEN GettingService ELSE acquire[g]]
    /\ UNCHANGED <<channelReady, stateLosses, outage, sessionReady,
                   servicePromise, methodTable, eventObservers, ledger,
                   pendingCalls, forwarded, rejectedCalls, unsubscribes,
                   readyEmitted>>
    /\ UNCHANGED exceptFacade

\* sessionPromise resolves: the session initialization runs once, installs
\* the stateLost and ready subscribers and awaits the first ready.
ResolveSession ==
    /\ ~sessionResolved
    /\ sessionResolved' = TRUE
    /\ ready' = TRUE
    /\ IF channelReady
       THEN /\ sessionReadyDone' = sessionReadyDone \cup {0}
            /\ acquire' = [g \in Acquisitions |->
                  IF g = 0 /\ acquire[g].st = "sessionReady"
                  THEN GettingService ELSE acquire[g]]
       ELSE UNCHANGED <<sessionReadyDone, acquire>>
    /\ UNCHANGED <<channelReady, stateLosses, outage, sessionReady,
                   servicePromise, methodTable, eventObservers, ledger,
                   pendingCalls, forwarded, rejectedCalls, unsubscribes,
                   readyEmitted>>
    /\ UNCHANGED exceptFacade

\* channel.ready emits: the flag is set, every pending sessionReady promise
\* resolves and the acquisitions chained on them call getRemoteService.
ChannelReady ==
    /\ ~channelReady
    /\ channelReady' = TRUE
    /\ readyEmitted' = TRUE
    /\ ledger' = [i \in DOMAIN ledger |-> [ledger[i] EXCEPT !.resubscribed = 0]]
    /\ IF sessionResolved
       THEN /\ ready' = TRUE
            /\ sessionReadyDone' = 0..sessionReady
            /\ acquire' = [g \in Acquisitions |->
                  IF acquire[g].st = "sessionReady"
                  THEN GettingService ELSE acquire[g]]
       ELSE UNCHANGED <<ready, sessionReadyDone, acquire>>
    /\ UNCHANGED <<stateLosses, outage, sessionResolved, sessionReady,
                   servicePromise, methodTable, eventObservers, pendingCalls,
                   forwarded, rejectedCalls, unsubscribes>>
    /\ UNCHANGED exceptFacade

\* A stateLost subscriber without the guard on the ready flag.
ChannelStateLostUnguarded ==
    /\ stateLosses < MaxStateLost
    /\ stateLosses' = stateLosses + 1
    /\ outage' = IF channelReady THEN 1 ELSE outage + 1
    /\ channelReady' = FALSE
    /\ unsubscribes' = [n \in DOMAIN unsubscribes |->
          IF unsubscribes[n] = "awaiting" THEN "orphaned" ELSE unsubscribes[n]]
    /\ IF sessionResolved
       THEN /\ ready' = FALSE
            /\ sessionReady' = sessionReady + 1
            /\ servicePromise' = sessionReady + 1
            /\ acquire' = [g \in Acquisitions |->
                  IF g = sessionReady + 1 THEN AwaitingSession
                  ELSE Orphaned(acquire[g])]
       ELSE /\ acquire' = [g \in Acquisitions |-> Orphaned(acquire[g])]
            /\ UNCHANGED <<ready, sessionReady, servicePromise>>
    /\ UNCHANGED <<sessionResolved, sessionReadyDone, methodTable,
                   eventObservers, ledger, pendingCalls, forwarded,
                   rejectedCalls, readyEmitted>>
    /\ UNCHANGED exceptFacade

\* The channel resets its ready subject and emits stateLost; the subscriber
\* acts on the first emission since the last ready only.
ChannelStateLost ==
    /\ stateLosses < MaxStateLost
    /\ stateLosses' = stateLosses + 1
    /\ outage' = IF channelReady THEN 1 ELSE outage + 1
    /\ channelReady' = FALSE
    /\ unsubscribes' = [n \in DOMAIN unsubscribes |->
          IF unsubscribes[n] = "awaiting" THEN "orphaned" ELSE unsubscribes[n]]
    /\ IF sessionResolved /\ ready
       THEN /\ ready' = FALSE
            /\ sessionReady' = sessionReady + 1
            /\ servicePromise' = sessionReady + 1
            /\ acquire' = [g \in Acquisitions |->
                  IF g = sessionReady + 1 THEN AwaitingSession
                  ELSE Orphaned(acquire[g])]
       ELSE /\ acquire' = [g \in Acquisitions |-> Orphaned(acquire[g])]
            /\ UNCHANGED <<ready, sessionReady, servicePromise>>
    /\ UNCHANGED <<sessionResolved, sessionReadyDone, methodTable,
                   eventObservers, ledger, pendingCalls, forwarded,
                   rejectedCalls, readyEmitted>>
    /\ UNCHANGED exceptFacade

\* The proxy's get trap followed by the invocation of what it returned:
\* proxy[p](...) for a method, proxy[p].subscribe(observer) for an event.
\* The first access of a property captures serviceProvider()'s promise.
FacadeInvoke(kind, p) ==
    LET made == {c.n : c \in {d \in pendingCalls \cup forwarded
                                      \cup rejectedCalls : d.kind = kind}}
                  \cup (IF kind = "subscribe"
                        THEN {eventObservers[i].observer :
                                 i \in DOMAIN eventObservers}
                             \cup {n \in DOMAIN unsubscribes :
                                      unsubscribes[n] = "done"}
                        ELSE {})
        first == methodTable[p] = NoEntry
        provided == IF servicePromise = NoEntry THEN 0 ELSE servicePromise
        captured == IF first THEN provided ELSE methodTable[p]
    IN /\ kind \in {"call", "subscribe"}
       /\ p \in (IF kind = "call" THEN Methods ELSE {"event"})
       /\ Cardinality(made) <
             (IF kind = "call" THEN MaxFacadeCalls ELSE MaxSubscriptions)
       /\ methodTable' = [methodTable EXCEPT ![p] = captured]
       /\ servicePromise' = IF first THEN provided ELSE servicePromise
       /\ acquire' = IF first /\ servicePromise = NoEntry
                     THEN [acquire EXCEPT ![0] =
                              IF 0 \in sessionReadyDone
                              THEN GettingService
                              ELSE AwaitingSession]
                     ELSE acquire
       /\ pendingCalls' = pendingCalls \cup
             {[kind |-> kind, p |-> p, n |-> Cardinality(made) + 1,
               promise |-> captured, after |-> sessionReady,
               early |-> ~(sessionResolved /\ readyEmitted),
               afterFailure |-> servicePromise # NoEntry
                                /\ acquire[provided].st = "rejected",
               handle |-> NoEntry]}
       /\ UNCHANGED <<channelReady, stateLosses, outage, sessionResolved, ready,
                      sessionReady, sessionReadyDone, eventObservers, ledger,
                      forwarded, rejectedCalls, unsubscribes, readyEmitted>>
       /\ UNCHANGED exceptFacade

\* The captured service promise has settled.  Resolved: the method forwards
\* the call to the handle; subscribe records an EventSubscription whose
\* remoteSubscription is the promise returned by the handle's subscribe,
\* which is called with the arguments after the observer.
\* Rejected: the await throws and the call rejects with that error.
FacadeForward(c) ==
    /\ c \in pendingCalls
    /\ acquire[c.promise].st \in {"resolved", "rejected"}
    /\ pendingCalls' = pendingCalls \ {c}
    /\ CASE acquire[c.promise].st = "rejected" ->
              /\ rejectedCalls' = rejectedCalls \cup {c}
              /\ UNCHANGED <<forwarded, eventObservers, ledger>>
         [] acquire[c.promise].st = "resolved" /\ c.kind = "call" ->
              /\ forwarded' = forwarded \cup {[c EXCEPT !.handle = c.promise]}
              /\ UNCHANGED <<rejectedCalls, eventObservers, ledger>>
         [] acquire[c.promise].st = "resolved" /\ c.kind = "subscribe" ->
              /\ eventObservers' = Append(eventObservers,
                    [observer |-> c.n,
                     remoteSubscription |->
                        [kind |-> "promise", handle |-> c.promise,
                         observer |-> NoObserver]])
              /\ ledger' = Append(ledger,
                    [made |-> sessionReady, resubscribed |-> 0])
              /\ UNCHANGED <<forwarded, rejectedCalls>>
    /\ UNCHANGED <<channelReady, stateLosses, outage, sessionResolved, ready,
                   sessionReady, sessionReadyDone, servicePromise, acquire,
                   methodTable, unsubscribes, readyEmitted>>
    /\ UNCHANGED exceptFacade

\* acquireService: getRemoteService has answered; the loop over the recorded
\* subscriptions starts, or the service is returned at once.
AcquireGotService(g) ==
    /\ acquire[g].st = "getRemoteService"
    /\ acquire' = [acquire EXCEPT ![g] =
          IF eventObservers = <<>>
          THEN [st |-> "resolved", idx |-> 0, cur |-> 0]
          ELSE [st |-> "resubscribe", idx |-> 1,
                cur |-> eventObservers[1].observer]]
    /\ UNCHANGED <<channelReady, stateLosses, outage, sessionResolved, ready,
                   sessionReady, sessionReadyDone, servicePromise,
                   methodTable, eventObservers, ledger, pendingCalls,
                   forwarded, rejectedCalls, unsubscribes, readyEmitted>>
    /\ UNCHANGED exceptFacade

\* acquireService: the subscribe of the record under the loop has answered;
\* the record takes the awaited remote subscription and the array iterator
\* moves to the next position of the list as it is now.
AcquireResubscribed(g) ==
    /\ acquire[g].st = "resubscribe"
    /\ LET i == acquire[g].idx
           at == {j \in DOMAIN eventObservers :
                     eventObservers[j].observer = acquire[g].cur}
       IN /\ eventObservers' = [j \in DOMAIN eventObservers |->
                IF j \in at
                THEN [eventObservers[j] EXCEPT !.remoteSubscription =
                         [kind |-> "subscription", handle |-> g,
                          observer |-> eventObservers[j].observer]]
                ELSE eventObservers[j]]
          /\ ledger' = [j \in DOMAIN ledger |->
                IF j \in at
                THEN [ledger[j] EXCEPT !.resubscribed = @ + 1]
                ELSE ledger[j]]
          /\ acquire' = [acquire EXCEPT ![g] =
                IF i < Len(eventObservers)
                THEN [@ EXCEPT !.idx = i + 1,
                               !.cur = eventObservers[i + 1].observer]
                ELSE [st |-> "resolved", idx |-> 0, cur |-> 0]]
    /\ UNCHANGED <<channelReady, stateLosses, outage, sessionResolved, ready,
                   sessionReady, sessionReadyDone, servicePromise,
                   methodTable, pendingCalls, forwarded, rejectedCalls,
                   unsubscribes, readyEmitted>>
    /\ UNCHANGED exceptFacade

\* acquireService: the subscribe of the record under the loop has thrown;
\* the catch clause rethrows and the service promise rejects.
AcquireResubscribeFails(g) ==
    /\ acquire[g].st = "resubscribe"
    /\ acquire' = [acquire EXCEPT ![g] =
          [st |-> "rejected", idx |-> 0, cur |-> 0]]
    /\ UNCHANGED <<channelReady, stateLosses, outage, sessionResolved, ready,
                   sessionReady, sessionReadyDone, servicePromise,
                   methodTable, eventObservers, ledger, pendingCalls,
                   forwarded, rejectedCalls, unsubscribes, readyEmitted>>
    /\ UNCHANGED exceptFacade

\* unsubscribe() of the object returned by the facade's subscribe, up to its
\* await: eventSub.remoteSubscription.unsubscribe() is invoked.  A promise
\* has no unsubscribe member, so the invocation throws and unsubscribe()
\* rejects; a remote subscription sends the request.
FacadeUnsubscribe(n) ==
    /\ unsubscribes[n] = "none"
    /\ \E i \in DOMAIN eventObservers :
          /\ eventObservers[i].observer = n
          /\ unsubscribes' = [unsubscribes EXCEPT ![n] =
                IF eventObservers[i].remoteSubscription.kind = "promise"
                THEN "rejected"
                ELSE IF channelReady THEN "awaiting" ELSE "orphaned"]
    /\ UNCHANGED <<channelReady, stateLosses, outage, sessionResolved, ready,
                   sessionReady, sessionReadyDone, servicePromise, acquire,
                   methodTable, eventObservers, ledger, pendingCalls,
                   forwarded, rejectedCalls, readyEmitted>>
    /\ UNCHANGED exceptFacade

\* unsubscribe() after its await: the remote unsubscribe has answered and
\* the record is spliced out of the observer list.
UnsubscribeAnswered(n) ==
    /\ unsubscribes[n] = "awaiting"
    /\ unsubscribes' = [unsubscribes EXCEPT ![n] = "done"]
    /\ LET keep == SelectSeq([j \in DOMAIN eventObservers |-> j],
                      LAMBDA j : eventObservers[j].observer # n)
       IN /\ eventObservers' = [k \in DOMAIN keep |-> eventObservers[keep[k]]]
          /\ ledger' = [k \in DOMAIN keep |-> ledger[keep[k]]]
    /\ UNCHANGED <<channelReady, stateLosses, outage, sessionResolved, ready,
                   sessionReady, sessionReadyDone, servicePromise, acquire,
                   methodTable, pendingCalls, forwarded, rejectedCalls,
                   readyEmitted>>
    /\ UNCHANGED exceptFacade

\* sessionPromise resolves with a session whose channel lacks stateLost or
\* ready: the session initialization subscribes to both without a check,
\* the member access on undefined throws and sessionReady rejects.
ResolveSessionWithout(hasStateLost, hasReady) ==
    /\ ~sessionResolved
    /\ ~(hasStateLost /\ hasReady)
    /\ sessionResolved' = TRUE
    /\ sessionReadyRejected' = IF hasStateLost THEN "ready" ELSE "stateLost"
    /\ UNCHANGED <<channelReady, stateLosses, outage, ready, sessionReady,
                   sessionReadyDone, servicePromise, acquire, methodTable,
                   eventObservers, ledger, pendingCalls, forwarded,
                   rejectedCalls, unsubscribes, readyEmitted>>
    /\ UNCHANGED delivery
    /\ UNCHANGED exceptFacadeChannels

\* acquireService: the sessionReady promise it awaits has rejected, the
\* await throws and the service promise rejects.
AcquireSessionRejected(g) ==
    /\ sessionReadyRejected # ""
    /\ acquire[g].st = "sessionReady"
    /\ acquire' = [acquire EXCEPT ![g] =
          [st |-> "rejected", idx |-> 0, cur |-> 0]]
    /\ UNCHANGED <<channelReady, stateLosses, outage, sessionResolved, ready,
                   sessionReady, sessionReadyDone, servicePromise,
                   methodTable, eventObservers, ledger, pendingCalls,
                   forwarded, rejectedCalls, unsubscribes, readyEmitted>>
    /\ UNCHANGED pvars
    /\ UNCHANGED exceptFacadeChannels

\* The remote service emits the event while the connection is up: the
\* session there calls next() of the receiver of each subscription made on
\* this connection, which calls the observer the subscribe was given.
RemoteEmits ==
    /\ channelReady
    /\ delivery.emissions < MaxEmissions
    /\ LET live == {j \in DOMAIN eventObservers :
                       \/ stateLosses = 0
                       \/ /\ eventObservers[j].remoteSubscription.kind
                               = "subscription"
                          /\ ledger[j].resubscribed > 0}
           given(j) == eventObservers[j].remoteSubscription.observer
       IN delivery' = [delivery EXCEPT
             !.emissions = @ + 1,
             !.delivered = @ \cup ({given(j) : j \in live} \ {NoObserver}),
             !.missed = @ \cup {eventObservers[j].observer :
                                  j \in {k \in live : given(k) = NoObserver}}]
    /\ UNCHANGED fvars
    /\ UNCHANGED sessionReadyRejected
    /\ UNCHANGED exceptFacadeChannels


(***************************************************************************)
(* DurableSocket and DurableSocketChannel.  The handlers call one another  *)
(* synchronously, so each is an operator from the state before to the      *)
(* state after; w holds the five variables of this part.                   *)
(***************************************************************************)
World == [durable |-> durable, sockets |-> sockets, wire |-> wire,
          socketChannel |-> socketChannel, observed |-> observed]

Becomes(w) ==
    /\ durable' = w.durable
    /\ sockets' = w.sockets
    /\ wire' = w.wire
    /\ socketChannel' = w.socketChannel
    /\ observed' = w.observed

\* The underlying socket is open.
Connected(w) ==
    /\ w.durable.socket # NoSocket
    /\ w.sockets[w.durable.socket] = "open"

\* The promise waitUntilReady() returns now.
CurrentReady(d) == IF d.replaced THEN d.readyCurrent ELSE d.readyInitial

Settle(state, outcome) == IF state = "pending" THEN outcome ELSE state

\* SocketChannel.markReady: the replay subject takes a value.
markReady(w) ==
    [w EXCEPT !.socketChannel.readyBuffer = TRUE,
              !.observed.everReady = TRUE,
              !.observed.lostSinceReady = 0]

\* SocketChannel.markNotReady: the replay subject is reset.
markNotReady(w) == [w EXCEPT !.socketChannel.readyBuffer = FALSE]

\* SocketChannel.stateWasLost: stateLost emits.
stateWasLost(w) ==
    IF w.observed.everReady
    THEN [w EXCEPT !.observed.lostSinceReady = @ + 1]
    ELSE [w EXCEPT !.observed.lostBeforeReady = @ + 1]

\* The listeners the DurableSocket constructor registers.
ownListeners(w, type, code) ==
    CASE type = "open" ->
           [w EXCEPT !.durable.readyInitial = Settle(@, "resolved")]
      [] type = "close" ->
           IF code = 503
           THEN [w EXCEPT !.durable.readyInitial = Settle(@, "rejected")]
           ELSE w
      [] type = "lost" ->
           [w EXCEPT !.durable.replaced = TRUE,
                     !.durable.readyCurrent = "pending"]
      [] type = "restore" ->
           IF w.durable.replaced
           THEN [w EXCEPT !.durable.readyCurrent = Settle(@, "resolved")]
           ELSE w
      [] OTHER -> w

\* The listeners the SocketChannel and DurableSocketChannel constructors
\* register.
channelListeners(w, type) ==
    CASE type = "open" -> markReady(w)
      [] type = "close" -> stateWasLost(w)
      [] type = "error" -> stateWasLost(w)
      [] type = "lost" -> stateWasLost(markNotReady(w))
      [] type = "restore" -> markReady(w)
      [] OTHER -> w

\* DurableSocket.dispatchEvent: the listeners run in registration order.
dispatchEvent(w, type, code) ==
    LET seen == IF w.observed.closeCalled
                   /\ type \in {"open", "restore", "lost"}
                THEN [w EXCEPT !.observed.afterClose = @ \cup {type}]
                ELSE w
    IN channelListeners(ownListeners(seen, type, code), type)

\* _socket?.close(); _socket = null.  A socket that was not closed yet
\* will still deliver its close event.
dropSocket(w) ==
    LET k == w.durable.socket
    IN IF k = NoSocket THEN w
       ELSE [w EXCEPT !.sockets[k] = IF @ \in {"connecting", "open"}
                                     THEN "closing" ELSE @,
                      !.durable.socket = NoSocket]

\* DurableSocket.close: the event it dispatches carries no code.
close(w, code) ==
    LET marked == [w EXCEPT !.durable.closed = TRUE,
                            !.observed.closeCalled = TRUE]
    IN dispatchEvent(dropSocket(marked), "close", NoCode)

\* DurableSocket.attemptToReconnect.
attemptToReconnect(w) == [w EXCEPT !.durable.reconnectTimeout = TRUE]

\* A handleConnect that forgets the queue.
handleConnectWithoutDrain(w) ==
    LET first == ~w.durable.open
        opened == IF first
                  THEN [dispatchEvent(w, "open", NoCode)
                           EXCEPT !.durable.open = TRUE]
                  ELSE w
        readied == [opened EXCEPT !.durable.ready = TRUE,
                                  !.durable.attempt = 0]
        restored == IF first THEN readied
                    ELSE dispatchEvent(readied, "restore", NoCode)
    IN [restored EXCEPT !.durable.pingTimer = TRUE]

\* DurableSocket.handleConnect.
handleConnect(w) ==
    LET first == ~w.durable.open
        opened == IF first
                  THEN [dispatchEvent(w, "open", NoCode)
                           EXCEPT !.durable.open = TRUE]
                  ELSE w
        drained == [opened EXCEPT !.durable.ready = TRUE,
                                  !.durable.attempt = 0,
                                  !.wire = @ \o opened.durable.messageQueue,
                                  !.durable.messageQueue = <<>>]
        restored == IF first THEN drained
                    ELSE dispatchEvent(drained, "restore", NoCode)
    IN [restored EXCEPT !.durable.pingTimer = TRUE]

\* DurableSocket.handleLost.
handleLost(w) ==
    IF w.durable.closed THEN w
    ELSE LET counted == [w EXCEPT !.durable.ready = FALSE,
                                  !.durable.attempt = @ + 1,
                                  !.durable.pingTimer = FALSE]
             told == dispatchEvent(dropSocket(counted), "lost", NoCode)
         IN IF told.durable.maxAttempts > 0
               /\ told.durable.attempt >= told.durable.maxAttempts
            THEN close([told EXCEPT !.observed.fatal = TRUE,
                                    !.observed.failedAtFatal =
                                         told.observed.failed],
                       503)
            ELSE attemptToReconnect(told)

\* An onclose that does not look at which socket closed.
oncloseOfAnySocket(w, socket) ==
    handleLost([w EXCEPT !.durable.connecting = FALSE])

\* The onclose connect() installs on the socket it created.
onclose(w, socket) ==
    IF w.durable.socket # socket THEN w
    ELSE handleLost([w EXCEPT !.durable.connecting = FALSE])

\* DurableSocket.connect up to its await: the socket is created.
connect(w) ==
    IF w.durable.connecting THEN w
    ELSE LET cleaned == dropSocket([w EXCEPT !.durable.connecting = TRUE])
             k == CHOOSE j \in 1..MaxSockets :
                     /\ w.sockets[j] = "none"
                     /\ \A i \in 1..(j - 1) : w.sockets[i] # "none"
         IN [cleaned EXCEPT !.sockets[k] = "connecting",
                            !.durable.created = k,
                            !.observed.afterClose =
                                IF w.observed.closeCalled
                                THEN @ \cup {"socket"} ELSE @]

\* DurableSocket.send.
send(w, m) ==
    IF ~w.durable.ready
    THEN [w EXCEPT !.durable.messageQueue = Append(@, m),
                   !.observed.enqueued = @ \cup {m}]
    ELSE IF w.sockets[w.durable.socket] = "open"
         THEN [w EXCEPT !.wire = Append(@, m)]
         ELSE w

(***************************************************************************)
(* DurableSocket: actions.                                                 *)
(***************************************************************************)
\* The application sets maxAttempts on the socket it has just constructed.
SetMaxAttempts(n) ==
    /\ durable.maxAttempts = 0
    /\ durable.created = 1
    /\ ~observed.closeCalled
    /\ observed.submitted = 0
    /\ Becomes([World EXCEPT !.durable.maxAttempts = n])
    /\ UNCHANGED exceptSocket

\* connect after its await: the created socket becomes _socket and takes
\* its handlers.
ConnectAssign ==
    /\ durable.created # NoSocket
    /\ Becomes([World EXCEPT !.durable.socket = durable.created,
                             !.durable.created = NoSocket])
    /\ UNCHANGED exceptSocket

\* onopen of the current socket.
SocketOpens ==
    /\ durable.socket # NoSocket
    /\ sockets[durable.socket] = "connecting"
    /\ Becomes(handleConnect(
          [World EXCEPT !.sockets[durable.socket] = "open",
                        !.durable.connecting = FALSE,
                        !.observed.failed = 0]))
    /\ UNCHANGED exceptSocket

\* The current socket closes, after an error event or without one: onerror
\* relays the event, onclose handles the loss.
SocketCloses(withError) ==
    /\ durable.socket # NoSocket
    /\ sockets[durable.socket] \in {"connecting", "open"}
    /\ LET gone == [World EXCEPT
                       !.sockets[durable.socket] = "closed",
                       !.observed.failed =
                           IF sockets[durable.socket] = "connecting"
                           THEN @ + 1 ELSE @]
           erred == IF withError THEN dispatchEvent(gone, "error", NoCode)
                    ELSE gone
       IN Becomes(onclose(erred, durable.socket))
    /\ UNCHANGED exceptSocket

\* The close event of a socket the DurableSocket has closed and let go of.
StaleSocketCloses(k) ==
    /\ sockets[k] = "closing"
    /\ LET gone == [World EXCEPT !.sockets[k] = "closed"]
           after == onclose(gone, k)
       IN Becomes([after EXCEPT
              !.observed.staleSeen = TRUE,
              !.observed.staleWhileCurrent =
                  @ \/ durable.socket # NoSocket,
              !.observed.staleChanged = @ \/ after # gone])
    /\ UNCHANGED exceptSocket

\* The reconnect timeout fires.
ReconnectTimer ==
    /\ durable.reconnectTimeout
    /\ durable.connecting \/ \E k \in 1..MaxSockets : sockets[k] = "none"
    /\ Becomes(connect([World EXCEPT !.durable.reconnectTimeout = FALSE]))
    /\ UNCHANGED exceptSocket

\* The ping interval fires and the last pong is too old.
PingTimeout ==
    /\ durable.pingTimer
    /\ IF durable.closed
       THEN Becomes([World EXCEPT !.durable.pingTimer = FALSE])
       ELSE Becomes(handleLost(World))
    /\ UNCHANGED exceptSocket

\* The application sends its next message; with _ready set and no socket
\* send throws and nothing is submitted.
Send ==
    /\ observed.submitted < MaxMessages
    /\ durable.ready => durable.socket # NoSocket
    /\ Becomes(send([World EXCEPT !.observed.submitted = @ + 1],
                    observed.submitted + 1))
    /\ UNCHANGED exceptSocket

\* The application closes the socket.
Close ==
    /\ ~observed.closeCalled
    /\ Becomes(close(World, NoCode))
    /\ UNCHANGED exceptSocket

(***************************************************************************)
(* RPCSession: the dispatch of one request.  The serving session holds one *)
(* remotable object, o; the peer names receivers and methods as it likes.  *)
(***************************************************************************)
\* The registries of the serving session.
ServingSession == registerLocalObject(NewSession, "o")

\* The properties of o: whether the property holds a function, and the
\* rpc:type metadata that getRpcType() finds for it.
MethodNames == {"doStuff", "anything", "helper", "count", "nothing"}
isFunction(method) == method \in {"doStuff", "anything", "helper"}
rpcTypeOf(method) ==
    CASE method = "doStuff" -> "call"
      [] method = "anything" -> "any"
      [] OTHER -> "none"

\* What the peer may put as the receiver of a request: nothing, a plain
\* string, or a reference with side R to o, to an object the serving session
\* does not have, or with an empty id.
ReceiverFrames ==
    {Receiver("absent", NoRef), Receiver("primitive", NoRef)}
       \cup {Receiver("ref", [id |-> x, S |-> "R", Rid |-> 0]) :
                x \in {"o", "k", ""}}

\* What a method may return or throw.
Returned == {Undefined, Number(5)}
Thrown == {ErrorObject("secret1", FALSE), ErrorObject("secret2", FALSE),
           ErrorObject("secret1", TRUE), Number(0), Null}

\* decodeMessage for the receiver of a request frame.
decodeReceiver(frame) ==
    IF frame.kind = "ref"
    THEN getObjectByRemoteRef(ServingSession, frame.ref)
    ELSE [s |-> ServingSession, object |-> NoValue, failed |-> FALSE,
          out |-> <<>>]

\* getRpcType(target, propertyKey): Reflect.getMetadata throws a TypeError
\* for a target that is not an object.
getRpcType(frame, method) ==
    IF frame.kind = "primitive" THEN "TypeError" ELSE rpcTypeOf(method)

\* serializeError followed by the masking of the stack: reading toJSON of
\* null or undefined throws; an Error becomes a plain object, without its
\* symbol properties; any other value goes as it is.
serializeError(srv, e) ==
    IF e.k = "Error"
    THEN [e EXCEPT !.k = "object", !.marked = FALSE,
                   !.stack = IF srv.maskStackTraces THEN "summary" ELSE @]
    ELSE e

Response(id, value, error) ==
    [type |-> "response", id |-> id, value |-> value, error |-> error]

\* onReceiveMessage for a decoded request, up to the await of performCall:
\* the responses it sends, whether it invokes the method, and whether it
\* ends by throwing.
onReceiveMessage(srv, id, frame, method) ==
    LET object == decodeReceiver(frame).object
        present == frame.kind = "primitive" \/ object # NoValue
        rpcType == getRpcType(frame, method)
    IN IF ~present
       THEN [sent |-> <<Response(id, Undefined,
                          IF frame.kind = "ref"
                          THEN InvalidCall("no-such-receiver",
                                           "No such receiver")
                          ELSE InvalidCall("no-receiver-specified",
                                           "No receiver specified"))>>,
             invoke |-> FALSE, threw |-> FALSE]
       ELSE IF rpcType = "TypeError"
       THEN [sent |-> <<>>, invoke |-> FALSE, threw |-> TRUE]
       ELSE IF frame.kind = "ref" /\ isFunction(method)
               /\ (rpcType \in {"call", "any"} \/ srv.allowAll)
       THEN [sent |-> <<>>, invoke |-> TRUE, threw |-> FALSE]
       ELSE [sent |-> <<Response(id, Undefined,
                          InvalidCall("", "No such method"))>>,
             invoke |-> FALSE, threw |-> FALSE]

\* onReceiveMessage after the await of performCall: the method has returned
\* or thrown outcome.  Reading a property of null or undefined throws.
performCallSettled(srv, id, threw, outcome) ==
    IF ~threw
    THEN [sent |-> <<Response(id, outcome, Undefined)>>, threw |-> FALSE]
    ELSE IF outcome.k \in {"null", "undefined"}
    THEN [sent |-> <<>>, threw |-> TRUE]
    ELSE LET e == IF srv.safeExceptionsMode /\ ~outcome.marked
                  THEN RPCInternalError ELSE outcome
         IN [sent |-> <<Response(id, Undefined, serializeError(srv, e))>>,
             threw |-> FALSE]

(***************************************************************************)
(* RPCSession: the dispatch of one request, actions.                       *)
(***************************************************************************)
\* The application sets the options of the serving session and the
\* allow-all-calls metadata of o before any request arrives.
Configure(safe, mask, allowAll) ==
    /\ client.requestMap = {}
    /\ \A i \in DOMAIN inbound : inbound[i].st = "none"
    /\ server = [safeExceptionsMode |-> TRUE, maskStackTraces |-> TRUE,
                 allowAll |-> FALSE, closed |-> FALSE, fatal |-> FALSE]
    /\ server' = [server EXCEPT !.safeExceptionsMode = safe,
                                !.maskStackTraces = mask,
                                !.allowAll = allowAll]
    /\ server' # server
    /\ UNCHANGED <<inbound, responses, client>>
    /\ UNCHANGED exceptDispatch

\* The peer sends its next request and the serving session receives it:
\* channel.received decodes the frame and dispatches the message.  When the
\* frame does not decode the session emits the fatal error and calls
\* channel.close?.(): a channel that has a close() delivers nothing more,
\* a channel without one (a LocalChannel) goes on delivering.
ReceiveRequest(frame, method, hasClose) ==
    LET id == Cardinality({i \in DOMAIN inbound : inbound[i].st # "none"}) + 1
    IN /\ id <= MaxRequests
       /\ ~server.closed
       /\ server.fatal => ~hasClose
       /\ client' = [client EXCEPT !.requestMap = @ \cup {id},
                                   !.promises[id] = "pending"]
       /\ IF decodeReceiver(frame).failed
          THEN /\ server' = [server EXCEPT !.closed = hasClose,
                                            !.fatal = TRUE]
               /\ inbound' = [inbound EXCEPT ![id] =
                     [NotReceived EXCEPT !.st = "fatal",
                                         !.receiver = frame,
                                         !.method = method]]
               /\ UNCHANGED responses
          ELSE LET r == onReceiveMessage(server, id, frame, method)
               IN /\ inbound' = [inbound EXCEPT ![id] =
                        [NotReceived EXCEPT
                            !.st = IF r.invoke THEN "executing"
                                   ELSE IF r.threw THEN "crashed"
                                   ELSE "answered",
                            !.receiver = frame, !.method = method,
                            !.invoked = r.invoke]]
                  /\ responses' = responses \o r.sent
                  /\ UNCHANGED server
       /\ UNCHANGED exceptDispatch

\* The invoked method returns or throws.
PerformCallSettles(id, threw, outcome) ==
    /\ inbound[id].st = "executing"
    /\ outcome \in (IF threw THEN Thrown ELSE Returned)
    /\ LET r == performCallSettled(server, id, threw, outcome)
       IN /\ inbound' = [inbound EXCEPT ![id] =
                [@ EXCEPT !.st = IF r.threw THEN "crashed" ELSE "answered",
                          !.threw = threw, !.outcome = outcome]]
          /\ responses' = responses \o r.sent
    /\ UNCHANGED <<server, client>>
    /\ UNCHANGED exceptDispatch

\* The peer receives the next response frame: onReceiveMessage for a
\* response runs the responseHandler of the request in flight.
ReceiveResponse ==
    /\ client.delivered < Len(responses)
    /\ LET message == responses[client.delivered + 1]
           known == message.id \in client.requestMap
           handled == responseHandler(
                         [client EXCEPT !.requestMap = @ \ {message.id}],
                         [id |-> message.id,
                          error |-> Truthy(message.error)])
       IN client' = [(IF known THEN handled ELSE client) EXCEPT
                        !.delivered = @ + 1,
                        !.got[message.id] = message.error]
    /\ UNCHANGED <<server, inbound, responses>>
    /\ UNCHANGED exceptDispatch

registerService(h, klass) ==
    LET serviceName == getRpcServiceName(klass)
    IN IF ~klass.remotable
       THEN [h |-> h, threw |-> TRUE]
       ELSE IF serviceName = ""
       THEN [h |-> h, threw |-> TRUE]
       ELSE IF h.serviceRegistry[serviceName].registered
       THEN [h |-> h, threw |-> TRUE]
       ELSE [h |-> [h EXCEPT !.serviceRegistry[serviceName] =
                       [registered |-> TRUE, factory |-> "new",
                        discoverable |-> getRpcDiscoverable(klass),
                        introspectable |-> getRpcIntrospectable(klass)]],
             threw |-> FALSE]

\* getLocalService() as the peer calls it: the object it answers is put in
\* the response by remoteRef(), which keeps a hard reference for the peer.
getLocalService(h, identity) ==
    IF ~h.serviceRegistry[identity].registered
    THEN [h |-> h, object |-> NullObject]
    ELSE IF h.localObjectRegistry[identity].has
    THEN LET object == h.localObjectRegistry[identity].deref
         IN [h |-> IF object = UndefinedObject THEN h
                   ELSE [h EXCEPT !.remoteRefRegistry[identity] = @ + 1],
             object |-> object]
    ELSE LET serviceObject ==
                 IF h.serviceRegistry[identity].factory = "this" THEN 1
                 ELSE h.factoryCalls[identity] + 1
         IN [h |-> [h EXCEPT
                      !.factoryCalls[identity] = @ + 1,
                      !.localObjectRegistry[identity] =
                          [has |-> TRUE, deref |-> serviceObject],
                      !.remoteRefRegistry[identity] = @ + 1],
             object |-> serviceObject]

\* A getDiscoverableServices() that lists every registered service.
getDiscoverableServicesUnfiltered(h) ==
    IF ~h.enableDiscovery THEN {}
    ELSE {n \in ServiceNames : h.serviceRegistry[n].registered}

getDiscoverableServices(h) ==
    IF ~h.enableDiscovery THEN {}
    ELSE {n \in ServiceNames : /\ h.serviceRegistry[n].registered
                               /\ h.serviceRegistry[n].discoverable}

\* A getServiceIntrospection() that also asks for the discoverable flag.
getServiceIntrospectionOfDiscoverable(h, name) ==
    IF ~h.enableIntrospection THEN [threw |-> TRUE]
    ELSE IF ~(/\ h.serviceRegistry[name].registered
              /\ h.serviceRegistry[name].introspectable
              /\ h.serviceRegistry[name].discoverable)
    THEN [threw |-> TRUE]
    ELSE [threw |-> FALSE]

getServiceIntrospection(h, name) ==
    IF ~h.enableIntrospection THEN [threw |-> TRUE]
    ELSE IF ~(/\ h.serviceRegistry[name].registered
              /\ h.serviceRegistry[name].introspectable)
    THEN [threw |-> TRUE]
    ELSE [threw |-> FALSE]

\* The application sets enableDiscovery and enableIntrospection.
SetEnable(discovery, introspection) ==
    /\ host' = [host EXCEPT !.enableDiscovery = discovery,
                            !.enableIntrospection = introspection]
    /\ lastOp' = NoOp
    /\ UNCHANGED exceptServices

RegisterService(klass) ==
    LET r == registerService(host, klass)
    IN /\ host' = r.h
       /\ lastOp' = [NoOp EXCEPT
                       !.op = "registerService",
                       !.name = getRpcServiceName(klass),
                       !.threw = r.threw,
                       !.remotable = klass.remotable,
                       !.named = klass.named,
                       !.duplicate =
                           /\ getRpcServiceName(klass) \in ServiceNames
                           /\ host.serviceRegistry[getRpcServiceName(klass)]
                                  .registered,
                       !.changed = r.h.serviceRegistry # host.serviceRegistry]
       /\ UNCHANGED exceptServices

GetLocalService(identity) ==
    /\ host.requests < MaxServiceCalls
    /\ LET r == getLocalService(host, identity)
       IN /\ host' = [r.h EXCEPT !.requests = @ + 1,
                                 !.answers[identity] = @ \cup {r.object}]
          /\ lastOp' = [NoOp EXCEPT !.op = "getLocalService",
                                    !.name = identity]
    /\ UNCHANGED exceptServices

\* The peer's proxy was collected and it calls finalizeRef().
FinalizeServiceRef(name) ==
    /\ host.remoteRefRegistry[name] > 0
    /\ host' = [host EXCEPT !.remoteRefRegistry[name] = @ - 1]
    /\ lastOp' = NoOp
    /\ UNCHANGED exceptServices

\* The garbage collector takes a service object that only the WeakRef of
\* localObjectRegistry still names.
CollectService(name) ==
    /\ host.localObjectRegistry[name].has
    /\ host.localObjectRegistry[name].deref # UndefinedObject
    /\ host.serviceRegistry[name].factory = "new"
    /\ host.remoteRefRegistry[name] = 0
    /\ host' = [host EXCEPT
                  !.localObjectRegistry[name].deref = UndefinedObject]
    /\ lastOp' = NoOp
    /\ UNCHANGED exceptServices

GetDiscoverableServices ==
    /\ lastOp' = [NoOp EXCEPT !.op = "getDiscoverableServices",
                              !.listed = getDiscoverableServices(host)]
    /\ UNCHANGED host
    /\ UNCHANGED exceptServices

GetServiceIntrospection(name) ==
    /\ lastOp' = [NoOp EXCEPT
                    !.op = "getServiceIntrospection",
                    !.name = name,
                    !.threw = getServiceIntrospection(host, name).threw]
    /\ UNCHANGED host
    /\ UNCHANGED exceptServices

\* `await this.waitChain`: the continuation is queued at once if the promise
\* waitChain names now is settled, and waits on that promise otherwise.
awaitWaitChain(job) ==
    IF IsSettled(chain[waitChain].state)
    THEN /\ microtasks' = Append(microtasks, [job EXCEPT !.on = waitChain])
         /\ UNCHANGED chain
    ELSE /\ chain' = [chain EXCEPT ![waitChain].waiters =
                                      Append(@, [job EXCEPT !.on = waitChain])]
         /\ UNCHANGED microtasks

\* lock(callback) up to its first await.  The callback returns a value
\* (sync) or a promise that settles later, and may issue a call() of its own
\* while it runs (inner).
InvokeLock(i, sync, inner) ==
    /\ locks[i].st = "none"
    /\ \A j \in 1..MaxLocks : j < i => locks[j].st # "none"
    /\ locks' = [locks EXCEPT ![i] = [NoLock EXCEPT !.st = "awaiting",
                                                    !.sync = sync,
                                                    !.inner = inner]]
    /\ awaitWaitChain([kind |-> "lock", id |-> i, on |-> 0])
    /\ UNCHANGED <<waitChain, lockedCalls>>
    /\ UNCHANGED exceptLocks

\* call() issued outside any lock callback: _ignoreLocksSync is false, so
\* it awaits waitChain before it sends.
InvokeCall(c) ==
    /\ lockedCalls[c].st = "none"
    /\ lockedCalls' = [lockedCalls EXCEPT ![c] =
           [NoLockedCall EXCEPT
               !.st = "awaiting",
               !.after = {j \in 1..MaxLocks : locks[j].st # "none"}]]
    /\ awaitWaitChain([kind |-> "call", id |-> c, on |-> 0])
    /\ UNCHANGED <<waitChain, locks>>
    /\ UNCHANGED exceptLocks

\* Locks whose callback has begun and whose returned promise is unsettled.
Holding == {j \in 1..MaxLocks : /\ locks[j].st = "running"
                                /\ locks[j].returnValue = "pending"}

\* lock() after its await: an await of a rejected waitChain throws; otherwise
\* the callback runs inside ignoreLocks(), so a call() it issues is sent at
\* once, and waitChain is replaced by
\* this.waitChain.then(() => Promise.resolve(returnValue).then(() => {})).
lockContinues(i, on) ==
    IF chain[on].state = "rejected"
    THEN /\ locks' = [locks EXCEPT ![i].st = "failed"]
         /\ UNCHANGED <<waitChain, chain>>
    ELSE /\ locks' = [locks EXCEPT
                        ![i].st = IF locks[i].sync THEN "completed"
                                  ELSE "running",
                        ![i].returnValue = IF locks[i].sync THEN "fulfilled"
                                           ELSE "pending",
                        ![i].innerSent = locks[i].inner,
                        ![i].unfinished =
                            {j \in 1..MaxLocks :
                                /\ j < i
                                /\ \/ locks[j].st = "awaiting"
                                   \/ j \in Holding}]
         /\ chain' = [chain EXCEPT ![i] = [state |-> "pending",
                                           prev |-> waitChain,
                                           waiters |-> <<>>]]
         /\ waitChain' = i

\* call() after its await: sends the request unless the await threw.
callContinues(c, on) ==
    IF chain[on].state = "rejected"
    THEN lockedCalls' = [lockedCalls EXCEPT ![c].st = "failed"]
    ELSE lockedCalls' = [lockedCalls EXCEPT ![c].st = "sent",
                                            ![c].during = Holding]

\* The oldest queued continuation runs.
RunMicrotask ==
    /\ microtasks # <<>>
    /\ LET job == Head(microtasks)
       IN /\ microtasks' = Tail(microtasks)
          /\ IF job.kind = "lock"
             THEN /\ lockContinues(job.id, job.on)
                  /\ UNCHANGED lockedCalls
             ELSE /\ callContinues(job.id, job.on)
                  /\ UNCHANGED <<waitChain, chain, locks>>
    /\ UNCHANGED exceptLocks

\* The promise a lock callback returned settles.
CallbackSettles(i, fulfilled) ==
    /\ locks[i].st = "running"
    /\ locks[i].returnValue = "pending"
    /\ locks' = [locks EXCEPT
                   ![i].st = "completed",
                   ![i].returnValue = IF fulfilled THEN "fulfilled"
                                      ELSE "rejected"]
    /\ UNCHANGED <<waitChain, chain, lockedCalls, microtasks>>
    /\ UNCHANGED exceptLocks

\* The promise lock i stored in waitChain settles: rejected with its
\* predecessor, otherwise as the callback's promise settled.  The
\* continuations waiting on it are queued in the order they began to wait.
ChainSettles(i) ==
    /\ chain[i].state = "pending"
    /\ \/ chain[chain[i].prev].state = "rejected"
       \/ /\ chain[chain[i].prev].state = "fulfilled"
          /\ IsSettled(locks[i].returnValue)
    /\ chain' = [chain EXCEPT
                   ![i].state =
                       IF chain[chain[i].prev].state = "rejected"
                       THEN "rejected" ELSE locks[i].returnValue,
                   ![i].waiters = <<>>]
    /\ microtasks' = microtasks \o chain[i].waiters
    /\ UNCHANGED <<waitChain, locks, lockedCalls>>
    /\ UNCHANGED exceptLocks


(***************************************************************************)
(* One session and what reaches it.  The session calls session.remote,     *)
(* passing a plain value or its own remotable object o; its peer answers   *)
(* with whatever response frames it likes and releases references with     *)
(* finalizeRef requests.  Request ids are uuids: id 0 stands for an id the *)
(* session never issued.                                                   *)
(***************************************************************************)
\* RPCSession.addCallerStackTraces, as constructed.
addCallerStackTraces == TRUE

idle(s) == s.requestMap = {} /\ s.remoteRefRegistry = {}

\* call() when rawSend throws inside the Promise executor: the executor has
\* stored the in-flight entry, the exception rejects the promise.  encoded
\* says whether JSON.stringify finished (channel.send threw) or not.
callSendFails(s, receiver, method, param, refID, encoded) ==
    LET rpcRequest == [type |-> "request", id |-> s.requestId,
                       receiver |-> receiver, method |-> method,
                       param |-> param, refID |-> refID, error |-> FALSE]
        s1 == [s EXCEPT !.requestId = @ + 1,
                        !.requestMap = @ \cup {[request |-> rpcRequest,
                                                error |-> FALSE]},
                        !.promises = Append(@, "rejected")]
    IN IF encoded THEN encodeMessage(s1, rpcRequest).s ELSE s1

\* onReceiveMessage for a response that settles the oldest call in flight
\* when no call has the id of the response.
onResponseMessageByOrder(s, message) ==
    LET byId == {e \in s.requestMap : e.request.id = message.id}
        oldest == {e \in s.requestMap :
                      \A f \in s.requestMap : e.request.id <= f.request.id}
        inFlight == IF byId # {} THEN byId ELSE oldest
        settled == [message EXCEPT
                       !.id = (CHOOSE e \in inFlight : TRUE).request.id]
    IN IF inFlight = {}
       THEN [s |-> s, emitted |-> FALSE, threw |-> FALSE]
       ELSE LET s1 == [s EXCEPT !.requestMap = @ \ inFlight]
            IN IF message.error /\ message.primitive /\ addCallerStackTraces
               THEN [s |-> s1, emitted |-> FALSE, threw |-> TRUE]
               ELSE LET s2 == responseHandler(s1, settled)
                    IN [s |-> s2, emitted |-> idle(s2), threw |-> FALSE]

\* onReceiveMessage for a response.  The handler of the in-flight entry
\* deserializes the error and appends the caller's stack to error.stack:
\* deserializeError hands a primitive back as it is, and assigning to a
\* property of a primitive throws, after the entry was deleted and before
\* reject() and onRequestCompleted().
onResponseMessage(s, message) ==
    LET inFlight == {e \in s.requestMap : e.request.id = message.id}
    IN IF inFlight = {}
       THEN [s |-> s, emitted |-> FALSE, threw |-> FALSE]
       ELSE LET s1 == [s EXCEPT !.requestMap = @ \ inFlight]
            IN IF message.error /\ message.primitive /\ addCallerStackTraces
               THEN [s |-> s1, emitted |-> FALSE, threw |-> TRUE]
               ELSE LET s2 == responseHandler(s1, message)
                    IN [s |-> s2, emitted |-> idle(s2), threw |-> FALSE]

\* The peer's request for session.finalizeRef(refID).
onFinalizeRefRequest(s, refID) ==
    LET s1 == finalizeRef(s, refID)
    IN [s |-> s1, emitted |-> idle(s1), threw |-> FALSE]

ResponseFrames ==
    {[type |-> "response", id |-> i, receiver |-> NoRef, method |-> "",
      param |-> v, refID |-> NoRefID, error |-> e # "none",
      primitive |-> e = "primitive"] :
        i \in 0..(MaxCallerCalls + 1),
        v \in {NoRef, [id |-> "k", S |-> "L", Rid |-> 1]},
        e \in {"none", "object", "primitive"}}

FinalizeRefFrames ==
    {[type |-> "request", id |-> 0,
      receiver |-> [id |-> SessionName, S |-> "R", Rid |-> 0],
      method |-> "finalizeRef", param |-> NoRef, refID |-> <<"o", r>>,
      error |-> FALSE, primitive |-> FALSE] : r \in 1..MaxCallerCalls}

\* The application calls a method of session.remote.  failure: the send
\* works ("none"), JSON.stringify throws ("encode"), channel.send throws
\* ("send").
CallerCall(param, failure) ==
    /\ callerLog.calls < MaxCallerCalls
    /\ caller' =
          IF failure = "none"
          THEN call(caller, Remote, "getLocalService", param, NoRefID).s
          ELSE callSendFails(caller, Remote, "getLocalService", param,
                             NoRefID, failure = "send")
    /\ callerLog' = [callerLog EXCEPT
          !.calls = @ + 1,
          !.sendFailed = @ \/ failure # "none"]
    /\ UNCHANGED finalization
    /\ UNCHANGED exceptCaller

\* channel.received delivers a frame of the peer: decode it, dispatch it.
CallerReceives(frame) ==
    /\ callerLog.frames < MaxCallerFrames
    /\ frame.type = "response" => frame.id < caller.requestId
    /\ \E d \in {decodeMessage(caller, frame)} :
       \E r \in {IF d.failed
                 THEN [s |-> caller, emitted |-> FALSE, threw |-> FALSE]
                 ELSE IF frame.type = "response"
                 THEN onResponseMessage(d.s, d.message)
                 ELSE onFinalizeRefRequest(d.s, d.message.refID)} :
       LET matched == /\ frame.type = "response"
                      /\ \E e \in caller.requestMap : e.request.id = frame.id
           stray == frame.type = "response" /\ ~matched
           changed == {i \in 1..Len(caller.promises) :
                          r.s.promises[i] # caller.promises[i]}
       IN /\ caller' = r.s
          /\ callerLog' = [callerLog EXCEPT
                !.frames = @ + 1,
                !.becameIdle = @ \/ r.emitted,
                !.emittedBusy = @ \/ (r.emitted /\ ~idle(r.s)),
                !.missed = @ \/ /\ matched \/ frame.type = "request"
                                /\ idle(r.s)
                                /\ ~r.emitted,
                !.settledOther = @ \/ (changed \ {frame.id} # {}),
                !.resettled = @ \/ \E i \in changed :
                                       caller.promises[i] # "pending",
                !.strayUnknown = @ \/ (stray /\ frame.id = 0),
                !.strayCompleted = @ \/ (stray /\ frame.id # 0),
                !.strayTouched = @ \/ (stray /\ r.s # caller),
                !.strayDispatched = @ \/ (stray /\ r.s # d.s)]
    /\ UNCHANGED finalization
    /\ UNCHANGED exceptCaller

\* The keys of the two maps.  proxyRegistry is keyed by OBJECT_ID and the
\* held value of the FinalizationRegistry is `${OBJECT_ID}.${REFERENCE_ID}`:
\* a key is the tuple of the parts the string is made of.
objectKey(id) == <<id>>
referenceKey(refID) == <<refID[1], refID[2]>>

\* proxyRegistry.has(key) and proxyRegistry.delete(key).
proxyRegistryHas(s, key) ==
    \E id \in ObjIds : objectKey(id) = key /\ s.proxyRegistry[id] # NoEntry
proxyRegistryDelete(s, key) ==
    [s EXCEPT !.proxyRegistry =
        [id \in ObjIds |-> IF objectKey(id) = key THEN NoEntry ELSE @[id]]]

\* Proxies the application made itself with RPCProxy.create().
OwnProxies == {<<"k", 2>>}
\* The proxies of object k the session can come to know.
KnownProxies == OwnProxies \cup {<<"k", 1>>}

\* The application makes a proxy for the remote object k with
\* RPCProxy.create() and passes it as the parameter of a call.
CallerPassesProxy(x) ==
    /\ callerLog.calls < MaxCallerCalls
    /\ x \notin caller.liveProxies
    /\ x \notin finalization.timers \cup finalization.sent
    /\ caller' = call([caller EXCEPT !.liveProxies = @ \cup {x}], Remote,
                      "getLocalService", RPCProxy(x[1], x[2]), NoRefID).s
    /\ callerLog' = [callerLog EXCEPT !.calls = @ + 1]
    /\ UNCHANGED finalization
    /\ UNCHANGED exceptCaller

\* The collector reclaims a proxy nothing holds any more (a request in
\* flight holds its parameters).  For a proxy registered with
\* proxyFinalizer the callback runs: it deletes the held value from
\* proxyRegistry and sets the timer.
CollectCallerProxy(x) ==
    /\ x \in caller.liveProxies
    /\ x # <<SessionName, 0>>
    /\ \A e \in caller.requestMap :
          e.request.param # RPCProxy(x[1], x[2])
    /\ LET dead == [caller EXCEPT !.liveProxies = @ \ {x}]
       IN IF x \in caller.proxyFinalizer
          THEN /\ caller' = proxyRegistryDelete(
                               [dead EXCEPT !.proxyFinalizer = @ \ {x}],
                               referenceKey(x))
               /\ finalization' = [finalization EXCEPT
                                      !.timers = @ \cup {x}]
          ELSE /\ caller' = dead
               /\ UNCHANGED finalization
    /\ UNCHANGED callerLog
    /\ UNCHANGED exceptCaller

\* finalizationDelay has elapsed: the timer of the callback fires.
FinalizationTimerFires(x) ==
    /\ x \in finalization.timers
    /\ LET sends == ~proxyRegistryHas(caller, referenceKey(x))
       IN /\ caller' = IF sends
                       THEN call(caller, Remote, "finalizeRef", NoValue, x).s
                       ELSE caller
          /\ finalization' = [finalization EXCEPT
                !.timers = @ \ {x},
                !.sent = IF sends THEN @ \cup {x} ELSE @,
                !.sentRevived = @ \/ (sends /\ derefProxy(caller, x[1])
                                                 # NoValue)]
    /\ UNCHANGED callerLog
    /\ UNCHANGED exceptCaller


(***************************************************************************)
(* subscribeToEvent.  A request, an emission of the event and a stateLost  *)
(* of the channel are tasks: each starts when no continuation is queued.   *)
(* The continuation of `await observable.subscribe(...)` runs as a         *)
(* microtask of the task that dispatched the request.                      *)
(***************************************************************************)
Awaiting == {i \in DOMAIN remoteSubs : remoteSubs[i].st = "awaiting"}

\* The part of subscribeToEvent after the await that leaves out the
\* stateLost subscriber.
subscribeToEventContinuesUnguarded(sub, stateLost) ==
    [sub EXCEPT !.st = "returned"]

\* The part of subscribeToEvent after the await: with a channel that has
\* stateLost, subscription.add(stateLost.subscribe(unsubscribe)).
subscribeToEventContinues(sub, stateLost) ==
    [sub EXCEPT !.st = "returned",
                !.listening = stateLost /\ ~sub.closed]

\* Subscription.unsubscribe(): the teardowns added to it run too.
unsubscribe(sub) == [sub EXCEPT !.closed = TRUE, !.listening = FALSE]

\* The session is constructed on a channel with or without stateLost.
MakeEventChannel(stateLost) ==
    /\ eventChannel = "none"
    /\ eventChannel' = IF stateLost THEN "stateLost" ELSE "plain"
    /\ UNCHANGED <<remoteSubs, emissions, channelLosses>>
    /\ UNCHANGED exceptEvents

\* The peer's request for session.subscribeToEvent(source, name, receiver)
\* is dispatched: the method checks its arguments and the rpc:type of the
\* property, subscribes to the observable and awaits.
SubscribeToEvent(i, isEvent) ==
    /\ eventChannel # "none"
    /\ Awaiting = {}
    /\ remoteSubs[i].st = "none"
    /\ \A j \in 1..(i - 1) : remoteSubs[j].st # "none"
    /\ remoteSubs' = [remoteSubs EXCEPT ![i].st =
                         IF isEvent THEN "awaiting" ELSE "threw"]
    /\ UNCHANGED <<eventChannel, emissions, channelLosses>>
    /\ UNCHANGED exceptEvents

SubscribeToEventContinues(i) ==
    /\ i \in Awaiting
    /\ remoteSubs' = [remoteSubs EXCEPT ![i] =
          subscribeToEventContinues(@, eventChannel = "stateLost")]
    /\ UNCHANGED <<eventChannel, emissions, channelLosses>>
    /\ UNCHANGED exceptEvents

\* The local observable emits: every open subscription calls next() of its
\* eventReceiver.
EmitEvent ==
    /\ Awaiting = {}
    /\ emissions < MaxEmissions
    /\ emissions' = emissions + 1
    /\ remoteSubs' = [i \in DOMAIN remoteSubs |->
          LET sub == remoteSubs[i]
              open == sub.st = "returned" /\ ~sub.closed
          IN [sub EXCEPT
                !.received = IF open THEN @ + 1 ELSE @,
                !.emittedSince = @ \/ sub.lostSince,
                !.invokedSince = @ \/ (sub.lostSince /\ open)]]
    /\ UNCHANGED <<eventChannel, channelLosses>>
    /\ UNCHANGED exceptEvents

\* channel.stateLost emits: the subscribers added by subscribeToEvent run.
EventChannelStateLost ==
    /\ eventChannel = "stateLost"
    /\ Awaiting = {}
    /\ channelLosses < MaxChannelLosses
    /\ channelLosses' = channelLosses + 1
    /\ remoteSubs' = [i \in DOMAIN remoteSubs |->
          LET sub == remoteSubs[i]
              after == IF sub.listening THEN unsubscribe(sub) ELSE sub
          IN [after EXCEPT !.lostSince = @ \/ sub.st = "returned"]]
    /\ UNCHANGED <<eventChannel, emissions>>
    /\ UNCHANGED exceptEvents

\* The peer calls unsubscribe() of the RemoteSubscription it was given.
RemoteUnsubscribe(i) ==
    /\ Awaiting = {}
    /\ remoteSubs[i].st = "returned"
    /\ ~remoteSubs[i].closed
    /\ remoteSubs' = [remoteSubs EXCEPT ![i] = unsubscribe(@)]
    /\ UNCHANGED <<eventChannel, emissions, channelLosses>>
    /\ UNCHANGED exceptEvents

Values == {NoValue} \cup {Obj(x) : x \in ObjIds}
              \cup {RPCProxy(x, r) : x \in ObjIds, r \in 0..(2 * MaxCalls)}

Next ==
    \/ \E p \in Peers, receiver \in Values, param \in Values :
          AppCall(p, receiver, param)
    \/ \E p \in Peers : Received(p)
    \/ \E p \in Peers : \E e \in executing[p], value \in Values :
          Respond(p, e, value)
    \/ \E p \in Peers : \E x \in session[p].liveProxies : CollectProxy(p, x)
    \/ \E p \in Peers, id \in ObjIds : CollectObject(p, id)

Spec == Init /\ [][Next]_vars

\* The same system on a channel that provides stateLost.
NextLoss ==
    \/ Next
    \/ \E p \in Peers, drop \in BOOLEAN : StateLost(p, drop)

SpecLoss == Init /\ [][NextLoss]_vars

\* The same system with a server that finalizes the references it was given
\* whenever it likes.
NextFin ==
    \/ Next
    \/ \E refID \in session["B"].remoteRefRegistry : finalizeProxy("B", refID)

SpecFin == Init /\ [][NextFin]_vars

\* The service proxy over a channel that comes and goes.
NextFacade ==
    \/ ResolveSession
    \/ ChannelReady
    \/ ChannelStateLost
    \/ \E kind \in {"call", "subscribe"}, p \in Properties :
          FacadeInvoke(kind, p)
    \/ \E c \in pendingCalls : FacadeForward(c)
    \/ \E g \in Acquisitions : AcquireGotService(g)
    \/ \E g \in Acquisitions : AcquireResubscribed(g)

SpecFacade == Init /\ [][NextFacade]_vars

\* The same service proxy with an application that unsubscribes and a remote
\* side that may refuse a re-subscription.
NextFacadeFaults ==
    \/ NextFacade
    \/ \E g \in Acquisitions : AcquireResubscribeFails(g)
    \/ \E n \in DOMAIN unsubscribes : FacadeUnsubscribe(n)
    \/ \E n \in DOMAIN unsubscribes : UnsubscribeAnswered(n)

SpecFacadeFaults == Init /\ [][NextFacadeFaults]_vars

\* The service proxy and a remote service that emits its event.
NextFacadeEvents ==
    \/ NextFacade
    \/ RemoteEmits

SpecFacadeEvents == Init /\ [][NextFacadeEvents]_vars

\* The service proxy over a channel without stateLost or without ready.
NextFacadePlain ==
    \/ \E hasStateLost \in BOOLEAN, hasReady \in BOOLEAN :
          ResolveSessionWithout(hasStateLost, hasReady)
    \/ \E kind \in {"call", "subscribe"}, p \in Properties :
          FacadeInvoke(kind, p)
    \/ \E c \in pendingCalls : FacadeForward(c)
    \/ \E g \in Acquisitions : AcquireSessionRejected(g)

SpecFacadePlain == Init /\ [][NextFacadePlain]_vars

\* A DurableSocket with its channel over a network that opens and closes
\* the sockets it creates.
NextSocket ==
    \/ \E n \in 1..MaxAttemptsSetting : SetMaxAttempts(n)
    \/ ConnectAssign
    \/ SocketOpens
    \/ \E withError \in BOOLEAN : SocketCloses(withError)
    \/ \E k \in 1..MaxSockets : StaleSocketCloses(k)
    \/ ReconnectTimer
    \/ PingTimeout
    \/ Send
    \/ Close

SpecSocket == Init /\ [][NextSocket]_vars

\* A serving session and a peer that sends it requests of every shape.
NextDispatch ==
    \/ \E safe, mask, allowAll \in BOOLEAN : Configure(safe, mask, allowAll)
    \/ \E frame \in ReceiverFrames, method \in MethodNames,
           hasClose \in BOOLEAN :
          ReceiveRequest(frame, method, hasClose)
    \/ \E id \in 1..MaxRequests, threw \in BOOLEAN,
           outcome \in Thrown \cup Returned :
          PerformCallSettles(id, threw, outcome)
    \/ ReceiveResponse

SpecDispatch == Init /\ [][NextDispatch]_vars

\* The service registry of one session and the peer's use of it.
NextServices ==
    \/ \E discovery \in BOOLEAN, introspection \in BOOLEAN :
          SetEnable(discovery, introspection)
    \/ \E klass \in Klasses : RegisterService(klass)
    \/ \E identity \in ServiceNames : GetLocalService(identity)
    \/ \E name \in ServiceNames : FinalizeServiceRef(name)
    \/ \E name \in ServiceNames : CollectService(name)
    \/ GetDiscoverableServices
    \/ \E name \in ServiceNames : GetServiceIntrospection(name)

SpecServices == Init /\ [][NextServices]_vars

\* Registration, the two switches, discovery and introspection alone.
NextDiscovery ==
    \/ \E discovery \in BOOLEAN, introspection \in BOOLEAN :
          SetEnable(discovery, introspection)
    \/ \E klass \in Klasses : RegisterService(klass)
    \/ GetDiscoverableServices
    \/ \E name \in ServiceNames : GetServiceIntrospection(name)

SpecDiscovery == Init /\ [][NextDiscovery]_vars

\* lock() and call() invocations of an application and the microtask queue.
NextLock ==
    \/ \E i \in 1..MaxLocks, sync \in BOOLEAN, inner \in BOOLEAN :
          InvokeLock(i, sync, inner)
    \/ \E c \in 1..MaxLockedCalls : InvokeCall(c)
    \/ RunMicrotask
    \/ \E i \in 1..MaxLocks, fulfilled \in BOOLEAN :
          CallbackSettles(i, fulfilled)
    \/ \E i \in 1..MaxLocks : ChainSettles(i)

SpecLock == Init /\ [][NextLock]_vars

\* The lone session and its peer.
NextCaller ==
    \/ \E param \in {NoValue, Obj("o")},
           failure \in {"none", "encode", "send"} :
          CallerCall(param, failure)
    \/ \E frame \in ResponseFrames \cup FinalizeRefFrames :
          CallerReceives(frame)

SpecCaller == Init /\ [][NextCaller]_vars

\* The lone session when every send works and its peer only answers.
NextResponses ==
    \/ \E param \in {NoValue, Obj("o")} : CallerCall(param, "none")
    \/ \E frame \in ResponseFrames : CallerReceives(frame)

SpecResponses == Init /\ [][NextResponses]_vars

\* The lone session, the proxies it holds and the collector.
NextFinalization ==
    \/ \E x \in OwnProxies : CallerPassesProxy(x)
    \/ \E frame \in ResponseFrames : CallerReceives(frame)
    \/ \E x \in KnownProxies : CollectCallerProxy(x)
    \/ \E x \in KnownProxies : FinalizationTimerFires(x)

SpecFinalization == Init /\ [][NextFinalization]_vars

\* The session that serves the event subscriptions of its peer.
NextEvents ==
    \/ \E stateLost \in BOOLEAN : MakeEventChannel(stateLost)
    \/ \E i \in 1..MaxRemoteSubscriptions, isEvent \in BOOLEAN :
          SubscribeToEvent(i, isEvent)
    \/ \E i \in 1..MaxRemoteSubscriptions : SubscribeToEventContinues(i)
    \/ EmitEvent
    \/ EventChannelStateLost
    \/ \E i \in 1..MaxRemoteSubscriptions : RemoteUnsubscribe(i)

SpecEvents == Init /\ [][NextEvents]_vars

(***************************************************************************)
(* Properties of the reference bookkeeping.                                *)
(***************************************************************************)
\* Proxies of the peer of p that stand for object id and are still alive.
LiveProxiesFor(p, id) == {x \in session[Other(p)].liveProxies : x[1] = id}
\* Proxies for object id that the collector reclaimed on the peer of p.
CollectedFor(p, id) == {x \in collected[Other(p)] : x[1] = id}
\* No frame is in transit.
Quiescent == \A p \in Peers : chan[p] = <<>>
\* No frame is in transit and no method is running.
Settled == Quiescent /\ \A p \in Peers : executing[p] = {}

\* C1: whenever the peer holds a live proxy for an object of p, the
\* remoteRefRegistry of p has at least one entry for that object; so a step
\* that removes the last entry can only lead to a state where the peer's proxy
\* is gone.
C1_LiveProxyIsBacked ==
    \A p \in Peers : \A id \in Owned(p) :
        LiveProxiesFor(p, id) # {} =>
            countReferencesForObject(session[p], id) >= 1

\* A reference to o has been finalized while B's proxy for o stays alive.
C1_Witness ==
    /\ LiveProxiesFor("A", "o") # {}
    /\ session["A"].uuid >= 3
    /\ countReferencesForObject(session["A"], "o") = 1

\* C2: when p has sent one or more S="L" descriptors for the same object, the
\* peer never lost its proxy and every frame has been processed, the peer has
\* exactly one proxy and p retains exactly one reference.
C2_DuplicateCollapse ==
    \A p \in Peers : \A id \in Owned(p) :
        (/\ Quiescent
         /\ session[Other(p)].proxyRegistry[id] # NoEntry
         /\ CollectedFor(p, id) = {})
        => /\ Cardinality(LiveProxiesFor(p, id)) = 1
           /\ countReferencesForObject(session[p], id) = 1

\* A sent two descriptors for o, both were processed, B kept its proxy.
C2_Witness ==
    /\ Quiescent
    /\ session["A"].uuid >= 3
    /\ CollectedFor("A", "o") = {}
    /\ Cardinality(LiveProxiesFor("A", "o")) = 1
    /\ countReferencesForObject(session["A"], "o") = 1

\* C3: a descriptor that comes back to the session that owns the object
\* (S="R") decodes to that very local object, never to a proxy or to nothing.
C3_RoundTripIdentity ==
    \A p \in Peers : \A d \in decodedR[p] : d[2] = Obj(d[1])

\* B sent its proxy for o back to A and A decoded it.
C3_Witness == <<"o", Obj("o")>> \in decodedR["A"]

\* C4 as the spec states it: once the peer's proxy for an object has been
\* collected, no proxy for it is left and nothing is in transit or running,
\* p holds no reference to the object any more.
C4_ReleasedAfterCollection ==
    \A p \in Peers : \A id \in Owned(p) :
        (Settled /\ CollectedFor(p, id) # {} /\ LiveProxiesFor(p, id) = {})
        => countReferencesForObject(session[p], id) = 0

\* C5 as the spec states it: when the peer's proxy was collected and a later
\* descriptor produced a new proxy, p ends with exactly one reference.
C5_OneReferenceAfterRevival ==
    \A p \in Peers : \A id \in Owned(p) :
        (Settled /\ CollectedFor(p, id) # {} /\ LiveProxiesFor(p, id) # {})
        => countReferencesForObject(session[p], id) = 1

\* C6: an object or proxy passed as a parameter of a call is not reclaimed
\* while the call is in flight, even when the receiver has finalized the
\* reference it was given.
C6_ParamsHeldWhileInFlight ==
    \A p \in Peers : \A c \in passed[p] :
        session[p].promises[c[1]] = "pending" =>
            IF c[2].t = "obj"
            THEN c[2].id \notin session[p].deadObjects
            ELSE <<c[2].id, c[2].rid>> \in session[p].liveProxies

\* B's call with k is in flight, the reference that travelled with it has
\* been finalized, and k is the object it was.
C6_Witness ==
    \E c \in passed["B"] :
        /\ session["B"].promises[c[1]] = "pending"
        /\ c[2] = Obj("k")
        /\ session["B"].uuid >= 2
        /\ countReferencesForObject(session["B"], "k") = 0
        /\ "k" \notin session["B"].deadObjects

\* C7 as the spec states it: once nothing is in transit or running, every
\* call that was in flight at a stateLost has been rejected.
C7_LostCallsRejected ==
    \A p \in Peers : \A id \in lost[p] :
        Settled => session[p].promises[id] = "rejected"

\* C8 as the spec states it: a call that was in flight at a stateLost is
\* never resolved with the value of a late response.
C8_LostCallsNeverResolved ==
    \A p \in Peers : \A id \in lost[p] :
        session[p].promises[id] # "resolved"

(***************************************************************************)
(* Properties of the service proxy.                                        *)
(***************************************************************************)
\* The acquisition chained on the latest stateLost has returned the service.
Recovered ==
    /\ servicePromise # NoEntry
    /\ servicePromise >= 1
    /\ acquire[servicePromise].st = "resolved"

C10_CallsUseReacquiredHandle ==
    \A c \in forwarded : c.handle >= c.after

\* C11 as the spec states it: unsubscribe() of a subscription returned by
\* the facade completes successfully, that is, it never rejects, and once it
\* has completed the record is gone from the observer list.
C11_UnsubscribeCompletes ==
    \A n \in DOMAIN unsubscribes :
        /\ unsubscribes[n] # "rejected"
        /\ unsubscribes[n] = "done"
              => \A i \in DOMAIN eventObservers :
                    eventObservers[i].observer # n

\* C12 as the spec states it: a facade call made while the latest
\* acquisition of the service has failed on a re-subscription is never
\* forwarded to a service handle.
C12_CallAfterFailedResubscribeRejects ==
    \A c \in forwarded : ~c.afterFailure

Range(first, last) == [i \in 1..(last - first + 1) |-> first + i - 1]

\* C14: the messages handed to the underlying socket are in the order of
\* their submission, so that the queued ones precede every later one; a
\* connected socket has an empty queue; and, until close() is called, the
\* messages on the wire followed by the queue are exactly the messages
\* submitted, none lost.
C14_QueueDrainsInOrder ==
    /\ \A i, j \in DOMAIN wire : i < j => wire[i] < wire[j]
    /\ (durable.ready /\ ~durable.closed) => durable.messageQueue = <<>>
    /\ ~observed.closeCalled
          => wire \o durable.messageQueue = Range(1, observed.submitted)

\* After a reconnection the wire holds a message that was queued while the
\* connection was down, followed by one sent once it was up again.
C14_Witness ==
    /\ durable.open
    /\ durable.replaced
    /\ Connected(World)
    /\ Len(wire) >= 2
    /\ wire[1] \in observed.enqueued
    /\ wire[2] \notin observed.enqueued

\* C15 as the spec states it: with maxAttempts = N > 0 the 503 close
\* happens when N consecutive connection attempts have failed and not
\* before, and with maxAttempts = 0 it never happens.
C15_FatalAfterMaxAttempts ==
    observed.fatal =>
        /\ durable.maxAttempts > 0
        /\ observed.failedAtFatal = durable.maxAttempts

\* C16 as the spec states it: after the 503 close the promise that
\* waitUntilReady() returned at construction, on which RPCSession.connect
\* waits, and the promise it returns now have rejected.
C16_ReadyRejectsOnFatal ==
    observed.fatal =>
        /\ durable.readyInitial # "pending"
        /\ CurrentReady(durable) = "rejected"

\* C17 as the spec states it: while the socket is connected the current
\* ready promise is resolved, and while it is reconnecting the current
\* ready promise is pending.
C17_ReadyFollowsConnection ==
    /\ (durable.ready /\ Connected(World))
          => CurrentReady(durable) = "resolved"
    /\ (durable.open /\ ~durable.ready /\ ~durable.closed)
          => CurrentReady(durable) = "pending"

\* C18 as the spec states it: after close() no underlying socket is created
\* and no open, restore or lost event is dispatched.
C18_NothingAfterClose ==
    observed.afterClose = {}

\* C19 as the spec states it: the channel emits no stateLost before it has
\* first become ready, and at most one between two ready emissions.
C19_OneStateLostPerOutage ==
    /\ observed.lostBeforeReady = 0
    /\ observed.lostSinceReady <= 1

\* C20 as the spec states it: the ready subject of the channel holds a
\* value to replay to a new subscriber only while the socket is connected.
C20_ReadyReplaysOnlyWhileConnected ==
    socketChannel.readyBuffer <=> Connected(World)

(***************************************************************************)
(* Properties of the dispatch of a request.                                *)
(***************************************************************************)
\* The response frames sent for request id.
ResponsesTo(id) == {k \in DOMAIN responses : responses[k].id = id}

\* The dispatch of request id is over.
Dispatched(id) == inbound[id].st \in {"answered", "crashed"}

\* The gate of onReceiveMessage as the spec words it.
Exposed(id) ==
    /\ isFunction(inbound[id].method)
    /\ rpcTypeOf(inbound[id].method) \in {"call", "any"} \/ server.allowAll

\* C21 as the spec states it: with safeExceptionsMode on, when the method
\* threw a value that is not marked intentional the response carries the
\* internal-error placeholder, the same for any two such values, and when
\* the value is marked intentional the response carries that value.
C21_SafeExceptionsMaskUnintentional ==
    \A id \in DOMAIN inbound :
        (server.safeExceptionsMode /\ Dispatched(id) /\ inbound[id].threw)
           => \E k \in ResponsesTo(id) :
                 responses[k].error =
                    serializeError(server,
                                   IF inbound[id].outcome.marked
                                   THEN inbound[id].outcome
                                   ELSE RPCInternalError)

\* C22 as the spec states it: a method is invoked only if the named
\* property is a function tagged call or any, or the receiver allows all
\* calls; a request that reached a receiver under any other method name
\* invokes nothing and is answered with the invalid-call error.
C22_OnlyExposedMethodsRun ==
    \A id \in DOMAIN inbound :
        /\ inbound[id].invoked => Exposed(id)
        /\ (inbound[id].st \in {"executing", "answered", "crashed"}
               /\ inbound[id].receiver
                     \notin {Receiver("absent", NoRef),
                             Receiver("ref", [id |-> "", S |-> "R",
                                              Rid |-> 0])}
               /\ ~(inbound[id].receiver.kind = "ref" /\ Exposed(id)))
              => /\ ~inbound[id].invoked
                 /\ \E k \in ResponsesTo(id) :
                       responses[k].error =
                          InvalidCall("", "No such method")

\* C23 as the spec states it: a request frame that decoded successfully and
\* whose dispatch is over has been answered by exactly one response frame
\* with its id, and no request is ever answered twice.
C23_OneResponsePerRequest ==
    \A id \in DOMAIN inbound :
        /\ Cardinality(ResponsesTo(id)) <= 1
        /\ Dispatched(id) => Cardinality(ResponsesTo(id)) = 1

\* C24 as the spec states it: a request whose receiver descriptor does not
\* resolve to a local object is answered with invalid-call and reason
\* no-such-receiver, a request without a receiver with reason
\* no-receiver-specified, and the session keeps operating.
C24_UnknownReceiverIsAnswered ==
    \A id \in DOMAIN inbound :
        /\ (inbound[id].st # "none" /\ inbound[id].receiver.kind = "ref"
               /\ inbound[id].receiver.ref.id # "o")
              => /\ ~server.closed
                 /\ \E k \in ResponsesTo(id) :
                       /\ responses[k].error.code = "invalid-call"
                       /\ responses[k].error.reason = "no-such-receiver"
        /\ (inbound[id].st # "none" /\ inbound[id].receiver.kind = "absent")
              => /\ ~server.closed
                 /\ \E k \in ResponsesTo(id) :
                       /\ responses[k].error.code = "invalid-call"
                       /\ responses[k].error.reason = "no-receiver-specified"

\* C25 as the spec states it: when a response has been received the promise
\* of its call is rejected if the error of the response is anything other
\* than null or undefined, and resolved otherwise.
C25_ErrorFieldDecidesOutcome ==
    \A id \in DOMAIN inbound :
        client.promises[id] \in {"resolved", "rejected"}
           => (client.promises[id] = "rejected"
                  <=> client.got[id].k \notin {"null", "undefined"})

(***************************************************************************)
(* Service registry.                                                       *)
(***************************************************************************)

\* C26 as the spec states it: registerService(klass) throws and leaves the
\* service registry as it was when klass is not tagged remotable, when klass
\* has no declared service name, or when a service of the same name is
\* already registered.
C26_RegisterServiceRejects ==
    (/\ lastOp.op = "registerService"
     /\ \/ ~lastOp.remotable
        \/ ~lastOp.named
        \/ lastOp.name = ""
        \/ lastOp.duplicate)
    => (lastOp.threw /\ ~lastOp.changed)

\* C27 as the spec states it: for a registered service name every
\* getLocalService(name) of one session answers the same instance, which is
\* neither null nor undefined, and the factory runs at most once, also after
\* the peer has finalized all its references to the service.
C27_LocalServiceIsSingleton ==
    \A n \in ServiceNames :
        host.serviceRegistry[n].registered
        => /\ host.factoryCalls[n] <= 1
           /\ Cardinality(host.answers[n] \ {NullObject}) <= 1
           /\ UndefinedObject \notin host.answers[n]

\* C28: getDiscoverableServices answers exactly the registered services whose
\* discoverable flag is on, and nothing when enableDiscovery is off;
\* getServiceIntrospection(name) succeeds exactly when enableIntrospection is
\* on and the service is registered with its introspectable flag on, whatever
\* its discoverable flag.
C28_DiscoveryAndIntrospectionFlags ==
    /\ lastOp.op = "getDiscoverableServices"
       => lastOp.listed =
            {n \in ServiceNames :
                /\ host.enableDiscovery
                /\ host.serviceRegistry[n].registered
                /\ host.serviceRegistry[n].discoverable}
    /\ lastOp.op = "getServiceIntrospection"
       => (~lastOp.threw <=>
             /\ host.enableIntrospection
             /\ host.serviceRegistry[lastOp.name].registered
             /\ host.serviceRegistry[lastOp.name].introspectable)

\* A service that is introspectable but not discoverable has been
\* introspected, and a discovery has left a registered service out.
C28_Witness ==
    /\ lastOp.op = "getServiceIntrospection"
    /\ ~lastOp.threw
    /\ lastOp.name = "a"
    /\ ~host.serviceRegistry["a"].discoverable
    /\ ~host.enableDiscovery

(***************************************************************************)
(* Locks.                                                                  *)
(***************************************************************************)

\* C29 as the spec states it: a lock callback does not begin to execute
\* until the callbacks of all earlier lock() invocations, and the promises
\* they returned, have completed.
C29_LockCallbacksNeverOverlap ==
    \A i \in 1..MaxLocks : locks[i].unfinished = {}

\* C30 as the spec states it: a call() issued from outside a lock callback
\* after lock() was invoked is not sent while the promise that callback
\* returned is unsettled.
C30_CallsWaitForLock ==
    \A c \in 1..MaxLockedCalls :
        lockedCalls[c].st = "sent"
        => lockedCalls[c].during \cap lockedCalls[c].after = {}

\* C37 as the spec states it: when the promise a lock() callback returned
\* rejects, only the caller of that lock() sees the failure; every later
\* call() and lock() of the session still proceeds.
C37_LockFailureStaysWithItsCaller ==
    /\ \A i \in 1..MaxLocks : locks[i].st # "failed"
    /\ \A c \in 1..MaxLockedCalls : lockedCalls[c].st # "failed"

\* C32: a close event of a socket that is no longer the DurableSocket's
\* current socket has no effect: no lost event is dispatched, the attempt
\* counter is not incremented and no reconnect is scheduled.
C32_StaleCloseIsIgnored == ~observed.staleChanged

\* The close event of a replaced socket has arrived while its successor was
\* the current socket and open.
C32_Witness ==
    /\ observed.staleWhileCurrent
    /\ Connected(World)
    /\ durable.attempt = 0

\* C36 as the spec states it: when a frame fails to decode the session emits
\* a fatal error and closes the channel, the frame is not dispatched, and no
\* frame received after it is dispatched.
C36_NothingDispatchedAfterFatal ==
    \A i \in DOMAIN inbound :
        inbound[i].st = "fatal"
        => /\ server.fatal
           /\ ~inbound[i].invoked
           /\ ResponsesTo(i) = {}
           /\ \A j \in DOMAIN inbound :
                  i < j => inbound[j].st \in {"none", "fatal"}

(***************************************************************************)
(* Properties of the lone session.                                         *)
(***************************************************************************)
\* C33 as the spec states it: becameIdle is emitted only when the session
\* has no in-flight request and no outstanding reference, and it is emitted
\* whenever processing a response or a finalizeRef leaves the session so.
C33_BecameIdleExactlyWhenIdle ==
    ~callerLog.emittedBusy /\ ~callerLog.missed

\* C35 as the spec states it: a response settles only the in-flight call
\* of its id and at most once, and a response whose id is unknown or
\* already completed changes no session state and settles no promise.
C35_StrayResponseChangesNothing ==
    /\ ~callerLog.settledOther
    /\ ~callerLog.resettled
    /\ ~callerLog.strayTouched

\* C35, amended: a response settles only the in-flight call of its id and
\* at most once, and a response whose id is unknown or already completed
\* settles no promise and leaves the session as decoding its descriptors
\* left it.
C35_StrayResponseOnlyDecodes ==
    /\ ~callerLog.settledOther
    /\ ~callerLog.resettled
    /\ ~callerLog.strayDispatched

\* Stray responses of both kinds came, one of them with a descriptor, after
\* a call was settled by its own response.
C35_Witness ==
    /\ callerLog.strayUnknown
    /\ callerLog.strayCompleted
    /\ callerLog.strayTouched
    /\ \E i \in 1..Len(caller.promises) : caller.promises[i] = "resolved"

\* C38 as the spec states it: when the send of a request fails call()
\* rejects and leaves no entry in the in-flight request map.
C38_FailedSendLeavesNoEntry ==
    \A e \in caller.requestMap : caller.promises[e.request.id] = "pending"

\* C31 as the spec states it: when a proxy was collected and a descriptor
\* for the same object creates a new proxy before finalizationDelay has
\* elapsed, the finalizeRef scheduled for the collected proxy is not sent.
C31_RevivedProxyCancelsFinalization ==
    ~finalization.sentRevived

(***************************************************************************)
(* Properties of the event subscriptions a session serves.                 *)
(***************************************************************************)
\* C34: after the channel of a session has emitted stateLost, every
\* subscription the session had made for its peer through subscribeToEvent
\* is unsubscribed from the local event, and no later emission of the event
\* calls the peer's receiver.
C34_StateLostUnsubscribesRemoteListeners ==
    \A i \in DOMAIN remoteSubs :
        remoteSubs[i].lostSince
        => /\ remoteSubs[i].closed
           /\ ~remoteSubs[i].listening
           /\ ~remoteSubs[i].invokedSince

\* A subscription that had received an emission lost its channel state and
\* missed the next emission, which a subscription made after the loss got.
C34_Witness ==
    \E i, j \in DOMAIN remoteSubs :
        /\ remoteSubs[i].lostSince
        /\ remoteSubs[i].received = 1
        /\ remoteSubs[i].emittedSince
        /\ ~remoteSubs[j].lostSince
        /\ remoteSubs[j].received = 1
        /\ emissions = 2

(***************************************************************************)
(* Properties of the service proxy: events and plain channels.             *)
(***************************************************************************)
\* C39 as the spec states it: a subscription made through the facade's
\* event accessor before any state loss registers the caller's observer
\* with the remote event, so every emission of the remote event while the
\* subscription is active reaches that observer.
C39_FacadeSubscriptionDelivers ==
    stateLosses = 0 => delivery.missed = {}

\* C40 as the spec states it: over a channel that provides no ready and no
\* stateLost, a call made through the facade is forwarded to the remote
\* service and completes; it is not rejected.
C40_PlainChannelCallsComplete ==
    sessionReadyRejected # "" => \A c \in rejectedCalls : c.kind # "call"

====
